---- MODULE Spec2Model ----
(***************************************************************************)
(* Model of the resume-artifact pipeline of the ApplySmart backend:        *)
(*   app/backend/pdf_services.py  skills fitting (get_trimmed_skills_list, *)
(*                                preprocess_data_for_fitting)             *)
(*   app/backend/main.py          merge_resume_data, filter_resume_data,   *)
(*                                get_resume_versions, generate_resume,    *)
(*                                finalize_resume, update_app_details,     *)
(*                                render_pdf (variable resolution)         *)
(*   app/backend/utils.py         merge_variables                          *)
(*                                                                         *)
(* Python objects that are reached through more than one reference (list   *)
(* items, nested mappings) live in a heap: a sequence of cells addressed   *)
(* by their index.  A record holds the addresses, so that aliasing and     *)
(* mutation through an alias are what the code makes them.                 *)
(***************************************************************************)
EXTENDS Integers, Sequences, FiniteSets, TLC

VARIABLES
    \* --- get_trimmed_skills_list, called on its own ---
    fitIn,        \* [category, skills, width]: the arguments
    fitOut,       \* the returned list
    fitDone,      \* the call has returned
    fitOut2,      \* the list returned by fitting fitOut again
    fitDone2,     \* the second call has returned
    \* --- filter_resume_data, called on its own ---
    fHeap,        \* heap of the objects the records refer to
    fData,        \* the argument `data`
    fSel,         \* the argument `selections`
    fBefore,      \* value of `data` when the call started
    fOut,         \* the returned record
    fOut2,        \* the record returned by filtering fOut again
    fPc,          \* "ready" | "filtered" | "refiltered"
    \* --- merge_resume_data, called on its own ---
    mHeap,        \* heap of the objects the records refer to
    mFixed,       \* the argument `fixed_data`
    mGen,         \* the argument `generated_data`
    mBefore,      \* values of the two arguments when the call started
    mOut,         \* the returned record
    mPc,          \* "ready" | "merged"
    \* --- the formatting variables of one render_pdf request ---
    vHeap,        \* heap of the nested mappings of the layers
    vDefaults,    \* what load_variables returned
    vApp,         \* custom_variables.yaml: [exists, none, top]
    vReq,         \* data.variables: [exists, none, top]
    vBefore,      \* values of the three layers when the request started
    vFinal,       \* final_vars
    vPc,          \* "ready" | "loaded" | "app" | "resolved"
    \* --- get_trimmed_skills_list, one loop iteration at a time ---
    wIn,          \* the call's arguments: [category, skills, width]
    wCur,         \* current_skills
    wCount,       \* measurements asked of the renderer so far
    wFails,       \* measurements so far that did not fit
    wPc,          \* "loop" | "returned"
    wOut,         \* the returned list
    \* --- two generate_resume calls on one application directory ---
    aFiles,       \* the directory: file name -> content
    aBefore,      \* the names in the directory before the calls
    aProc,        \* per call: [pc, num]
    aRaced,       \* a call read the listing while the other held a number
                  \* it had not yet opened
    aLast,        \* the call that flushed last (0: none)
    \* --- the application tracker ---
    tApps,        \* the tracker file: a sequence of items
    tCalls,       \* calls received so far
    tLast,        \* the last call: [op, status, index, before]
    \* --- get_resume_versions, called on its own ---
    lDir,         \* the directory: [exists, names]
    lOut,         \* the returned list
    lPc,          \* "ready" | "listed"
    \* --- the same application: saved variables, previews, detail reads ---
    customVars,   \* custom_variables.yaml: [exists, vars]
    previewPdf,   \* tailored_resume_preview.pdf: [exists, data]
    shown,        \* what the last get_application_details returned
    \* --- one artifact file, a request writing it and a request reading it ---
    cKind,        \* "draft" | "finalized": which artifact the file is
    cFile,        \* the file: [exists, content], content a sequence of chunks
    cWriter,      \* the writing handler: [pc, content, count]
    cReader,      \* the reading handler: [pc, status, content]
    cPublished,   \* history: the complete contents the file was given
    \* --- one application directory and the requests against it ---
    drafts,       \* the draft files: file name -> content
    finalizedYaml,\* finalized_resume.yaml: [exists, data]
    finalPdf,     \* Resume_<name>.pdf: [exists, data], the record rendered
    details,      \* app_details.json: [name, finalizedBaseVersion]
    pc,           \* where the handler in progress stands; "idle" between requests
    request,      \* the request being handled
    locals,       \* the handler's local variables
    response,     \* the last response: [op, status, number]
    returned,     \* history: what each generate call found and returned
    latestRemoved,\* history: a latest numbered version file was removed
    pre,          \* history: the finalized slot when the last finalize started
    slotBase      \* history: the base version file of the request that last
                  \* wrote finalized_resume.yaml

fitVars    == <<fitIn, fitOut, fitDone, fitOut2, fitDone2>>
filterVars == <<fHeap, fData, fSel, fBefore, fOut, fOut2, fPc>>
mergeVars  == <<mHeap, mFixed, mGen, mBefore, mOut, mPc>>
resolveVars == <<vHeap, vDefaults, vApp, vReq, vBefore, vFinal, vPc>>
storeVars  == <<drafts, finalizedYaml, finalPdf, details, pc, request, locals,
                response, returned, latestRemoved, pre, slotBase>>
raceVars   == <<cKind, cFile, cWriter, cReader, cPublished>>
viewVars   == <<customVars, previewPdf, shown>>
listVars   == <<lDir, lOut, lPc>>
loopVars   == <<wIn, wCur, wCount, wFails, wPc, wOut>>
allocVars  == <<aFiles, aBefore, aProc, aRaced, aLast>>
trackVars  == <<tApps, tCalls, tLast>>
vars       == <<fitVars, filterVars, mergeVars, resolveVars, raceVars, storeVars,
                viewVars, listVars, loopVars, allocVars, trackVars>>

\* What a call of one function, or a request, leaves alone.
exceptFit    == <<filterVars, mergeVars, resolveVars, raceVars, storeVars, viewVars, listVars, loopVars, allocVars, trackVars>>
exceptFilter == <<fitVars, mergeVars, resolveVars, raceVars, storeVars, viewVars, listVars, loopVars, allocVars, trackVars>>
exceptMerge  == <<fitVars, filterVars, resolveVars, raceVars, storeVars, viewVars, listVars, loopVars, allocVars, trackVars>>
exceptResolve == <<fitVars, filterVars, mergeVars, raceVars, storeVars, viewVars, listVars, loopVars, allocVars, trackVars>>
exceptRace   == <<fitVars, filterVars, mergeVars, resolveVars, storeVars, viewVars, listVars, loopVars, allocVars, trackVars>>
exceptStore  == <<fitVars, filterVars, mergeVars, resolveVars, raceVars, viewVars, listVars, loopVars, allocVars, trackVars>>
exceptView   == <<fitVars, filterVars, mergeVars, resolveVars, raceVars, listVars, loopVars, allocVars, trackVars>>
exceptList   == <<fitVars, filterVars, mergeVars, resolveVars, raceVars, storeVars,
                  viewVars, loopVars, allocVars, trackVars>>
exceptLoop   == <<fitVars, filterVars, mergeVars, resolveVars, raceVars, storeVars,
                  viewVars, listVars, allocVars, trackVars>>
exceptAlloc  == <<fitVars, filterVars, mergeVars, resolveVars, raceVars, storeVars,
                  viewVars, listVars, loopVars, trackVars>>
exceptTrack  == <<fitVars, filterVars, mergeVars, resolveVars, raceVars, storeVars,
                  viewVars, listVars, loopVars, allocVars>>

(***************************************************************************)
(* Generic helpers                                                         *)
(***************************************************************************)
Range(s) == {s[i] : i \in 1..Len(s)}

IsPrefix(p, s) == Len(p) <= Len(s) /\ \A i \in 1..Len(p) : p[i] = s[i]

\* All sequences over S of length at most n.
SeqsUpTo(S, n) == UNION {[1..k -> S] : k \in 0..n}

(***************************************************************************)
(* The document renderer's measurement (reportlab Paragraph.wrap), as the  *)
(* fitting code consumes it: a height for a text at a width.  Glyphs are   *)
(* one unit wide; the <b>, </b> tags are markup and take no room.          *)
(***************************************************************************)
\* style.leading of the Skills style: fontsize 10 * 1.2
Leading == 12

\* Rendered length of the markup "<b>" and "</b>".
MarkupLen == 7

\* ", ".join(skills)
RECURSIVE JoinSkills(_)
JoinSkills(skills) ==
    IF skills = <<>> THEN ""
    ELSE IF Len(skills) = 1 THEN skills[1]
    ELSE skills[1] \o ", " \o JoinSkills(Tail(skills))

\* base_text = f"<b>{category}:</b> "
BaseText(category) == "<b>" \o category \o ":</b> "

\* Number of lines the text takes at max_width (at least one).
WrapLines(text, max_width) ==
    LET glyphs == Len(text) - MarkupLen
    IN  IF glyphs <= max_width THEN 1
        ELSE IF max_width <= 0 THEN glyphs + 1
        ELSE (glyphs + max_width - 1) \div max_width

\* w, h = Paragraph(text, style).wrap(max_width, 1000): the height h.
WrapHeight(text, max_width) == WrapLines(text, max_width) * Leading

\* h <= style.leading * 1.5, in integers.
FitsOneLine(text, max_width) == 2 * WrapHeight(text, max_width) <= 3 * Leading

(***************************************************************************)
(* ATSResumePDFGenerator.get_trimmed_skills_list                           *)
(***************************************************************************)
\* Mutant: the loop drops the first skill instead of the last.
RECURSIVE TrimFromHead(_, _, _)
TrimFromHead(category, skills, max_width) ==
    IF skills = <<>>
    THEN IF ~FitsOneLine(BaseText(category), max_width) THEN <<>> ELSE <<"">>
    ELSE IF FitsOneLine(BaseText(category) \o JoinSkills(skills), max_width)
         THEN skills
         ELSE TrimFromHead(category, Tail(skills), max_width)

\* Mutant: the loop stops one measurement early and returns without
\* measuring the shortened list.
TrimOnce(category, skills, max_width) ==
    IF skills = <<>>
    THEN IF ~FitsOneLine(BaseText(category), max_width) THEN <<>> ELSE <<"">>
    ELSE IF FitsOneLine(BaseText(category) \o JoinSkills(skills), max_width)
         THEN skills
         ELSE SubSeq(skills, 1, Len(skills) - 1)

RECURSIVE get_trimmed_skills_list(_, _, _)
get_trimmed_skills_list(category, skills, max_width) ==
    IF skills = <<>>
    THEN \* p_cat_only: return [] if h > style.leading * 1.5 else [""]
         IF ~FitsOneLine(BaseText(category), max_width) THEN <<>> ELSE <<"">>
    ELSE IF FitsOneLine(BaseText(category) \o JoinSkills(skills), max_width)
         THEN skills
         ELSE \* current_skills.pop()
              get_trimmed_skills_list(category,
                                      SubSeq(skills, 1, Len(skills) - 1),
                                      max_width)

(***************************************************************************)
(* Specification SpecFit: get_trimmed_skills_list on bounded inputs, then   *)
(* once more on its own result with the same category and width            *)
(***************************************************************************)
MaxSkills == 3
MaxWidth  == 14

FitCategories == {"L", "Lang"}
FitSkillNames == {"Go", "Rust", ""}

FitInit ==
    /\ fitIn \in [category : FitCategories,
                  skills   : SeqsUpTo(FitSkillNames, MaxSkills),
                  width    : 0..MaxWidth]
    /\ fitOut = <<>>
    /\ fitDone = FALSE
    /\ fitOut2 = <<>>
    /\ fitDone2 = FALSE

FitIdle ==
    /\ fitIn = [category |-> "L", skills |-> <<>>, width |-> 0]
    /\ fitOut = <<>>
    /\ fitDone = FALSE
    /\ fitOut2 = <<>>
    /\ fitDone2 = FALSE

FitCall ==
    /\ ~fitDone
    /\ fitOut' = get_trimmed_skills_list(fitIn.category, fitIn.skills, fitIn.width)
    /\ fitDone' = TRUE
    /\ UNCHANGED <<fitIn, fitOut2, fitDone2>>
    /\ UNCHANGED exceptFit

FitAgain ==
    /\ fitDone /\ ~fitDone2
    /\ fitOut2' = get_trimmed_skills_list(fitIn.category, fitOut, fitIn.width)
    /\ fitDone2' = TRUE
    /\ UNCHANGED <<fitIn, fitOut, fitDone>>
    /\ UNCHANGED exceptFit

FitNext == FitCall \/ FitAgain

(***************************************************************************)
(* Specification SpecLoop: the while loop of get_trimmed_skills_list, one  *)
(* iteration per step, under weak fairness (the loop body always runs on)  *)
(***************************************************************************)
\* Mutant: the loop drops the last two skills.
PopTwo(current_skills) ==
    IF Len(current_skills) <= 2 THEN <<>>
    ELSE SubSeq(current_skills, 1, Len(current_skills) - 2)

\* current_skills.pop()
Pop(current_skills) == SubSeq(current_skills, 1, Len(current_skills) - 1)

LoopInit ==
    /\ wIn \in [category : FitCategories,
                skills   : SeqsUpTo(FitSkillNames, MaxSkills),
                width    : 0..MaxWidth]
    /\ wCur = wIn.skills              \* current_skills = list(skills)
    /\ wCount = 0
    /\ wFails = 0
    /\ wPc = "loop"
    /\ wOut = <<>>

LoopIdle ==
    /\ wIn = [category |-> "L", skills |-> <<>>, width |-> 0]
    /\ wCur = <<>>
    /\ wCount = 0
    /\ wFails = 0
    /\ wPc = "idle"
    /\ wOut = <<>>

\* if not current_skills: measure the category alone and return.
LoopExhausted ==
    /\ wPc = "loop"
    /\ wCur = <<>>
    /\ wCount' = wCount + 1
    /\ wOut' = IF ~FitsOneLine(BaseText(wIn.category), wIn.width)
               THEN <<>> ELSE <<"">>
    /\ wPc' = "returned"
    /\ UNCHANGED <<wIn, wCur, wFails>>
    /\ UNCHANGED exceptLoop

\* The measured line fits: return current_skills.
LoopFits ==
    /\ wPc = "loop"
    /\ wCur # <<>>
    /\ FitsOneLine(BaseText(wIn.category) \o JoinSkills(wCur), wIn.width)
    /\ wCount' = wCount + 1
    /\ wOut' = wCur
    /\ wPc' = "returned"
    /\ UNCHANGED <<wIn, wCur, wFails>>
    /\ UNCHANGED exceptLoop

\* The measured line wraps: remove the last skill and try again.
LoopDrops ==
    /\ wPc = "loop"
    /\ wCur # <<>>
    /\ ~FitsOneLine(BaseText(wIn.category) \o JoinSkills(wCur), wIn.width)
    /\ wCount' = wCount + 1
    /\ wFails' = wFails + 1
    /\ wCur' = Pop(wCur)
    /\ UNCHANGED <<wIn, wPc, wOut>>
    /\ UNCHANGED exceptLoop

LoopNext == LoopExhausted \/ LoopFits \/ LoopDrops

(***************************************************************************)
(* Specification SpecFitScenario: the skills block                         *)
(* {"Languages": ["Python", "Go", "Rust", "Java", "C++"]} fitted at every   *)
(* width up to MaxScenarioWidth                                            *)
(***************************************************************************)
MaxScenarioWidth == 45

ScenarioSkills == <<"Python", "Go", "Rust", "Java", "C++">>

FitScenarioInit ==
    /\ fitIn \in [category : {"Languages"},
                  skills   : {ScenarioSkills},
                  width    : 0..MaxScenarioWidth]
    /\ fitOut = <<>>
    /\ fitDone = FALSE
    /\ fitOut2 = <<>>
    /\ fitDone2 = FALSE

(***************************************************************************)
(* Resume records on the heap                                              *)
(*                                                                         *)
(* A record is a mapping whose keys are a subset of RecordKeys.  "name"    *)
(* and "summary" hold strings; "contact" holds the address of a mapping    *)
(* [email, location]; the list-valued sections hold a sequence of          *)
(* addresses of items [title, items] (an experience entry with its         *)
(* bullets, a skills block with its skills, a project with its bullets).   *)
(***************************************************************************)
RecordKeys == <<"name", "contact", "summary", "skills", "education",
                "experience", "projects", "certifications">>

\* isinstance(data[key], list)
ListKeys == {"skills", "education", "experience", "projects", "certifications"}

\* Mutant: the key is kept, mapped to an empty list.
Emptied(rec, key) == [rec EXCEPT ![key] = <<>>]

\* del rec[key]
Without(rec, key) == [k \in DOMAIN rec \ {key} |-> rec[k]]

WithKey(rec, key, value) ==
    [k \in DOMAIN rec \cup {key} |-> IF k = key THEN value ELSE rec[k]]

\* The addresses a record refers to, in key order.
RECURSIVE AddrSeqFrom(_, _)
AddrSeqFrom(rec, i) ==
    IF i > Len(RecordKeys) THEN <<>>
    ELSE LET k == RecordKeys[i]
             here == IF k \notin DOMAIN rec THEN <<>>
                     ELSE IF k = "contact" THEN <<rec[k]>>
                     ELSE IF k \in ListKeys THEN rec[k]
                     ELSE <<>>
         IN  here \o AddrSeqFrom(rec, i + 1)

AddrSeq(rec) == AddrSeqFrom(rec, 1)

Addresses(rec) == Range(AddrSeq(rec))

\* The value of a record: what == compares and what yaml.dump writes.
Val(heap, rec) ==
    [k \in DOMAIN rec |->
        IF k = "contact" THEN heap[rec[k]]
        ELSE IF k \in ListKeys THEN [i \in 1..Len(rec[k]) |-> heap[rec[k][i]]]
        ELSE rec[k]]

\* copy.deepcopy(rec): every object the record refers to is copied into a
\* fresh cell; the result refers to the copies only.
DeepCopy(heap, rec) ==
    LET olds   == AddrSeq(rec)
        New(a) == Len(heap) + (CHOOSE k \in 1..Len(olds) : olds[k] = a)
    IN  [heap |-> heap \o [k \in 1..Len(olds) |-> heap[olds[k]]],
         out  |-> [k \in DOMAIN rec |->
                     IF k = "contact" THEN New(rec[k])
                     ELSE IF k \in ListKeys
                          THEN [i \in 1..Len(rec[k]) |-> New(rec[k][i])]
                     ELSE rec[k]]]

(***************************************************************************)
(* Selection maps: JSON values by their text                               *)
(***************************************************************************)
\* Python truthiness of a JSON value.
Truthy(v) == v \notin {"false", "0", "null", ""}

\* selections.get(key, True)
SelGet(selections, key) ==
    IF key \in DOMAIN selections THEN selections[key] ELSE "true"

\* f'select-{section_key}'
SectionKey(section) == "select-" \o section

\* f'select-{section_key}-{i}', i the Python index of the item
ItemKey(section, i) == "select-" \o section \o "-" \o ToString(i)

(***************************************************************************)
(* filter_resume_data                                                      *)
(***************************************************************************)
sections_plus_name ==
    <<"name", "summary", "skills", "education", "experience", "projects",
      "certifications">>

sections_to_process ==
    <<"summary", "skills", "education", "experience", "projects",
      "certifications">>

\* Mutant: the item loop starts at the second item.
RECURSIVE KeptItemsSkipFirst(_, _, _, _)
KeptItemsSkipFirst(items, section, selections, i) ==
    IF i > Len(items) THEN <<>>
    ELSE (IF i > 1 /\ Truthy(SelGet(selections, ItemKey(section, i - 1)))
          THEN <<items[i]>> ELSE <<>>)
         \o KeptItemsSkipFirst(items, section, selections, i + 1)

\* for i, item in enumerate(data[section_key]): the items kept, from the
\* i-th on (i counts from 1, the Python index is i - 1).
RECURSIVE KeptItems(_, _, _, _)
KeptItems(items, section, selections, i) ==
    IF i > Len(items) THEN <<>>
    ELSE (IF Truthy(SelGet(selections, ItemKey(section, i - 1)))
          THEN <<items[i]>> ELSE <<>>)
         \o KeptItems(items, section, selections, i + 1)

\* for section_key in sections_to_process: from the i-th section on.
\* `filtered` is the copy being built, `data` the argument.
RECURSIVE FilterSections(_, _, _, _)
FilterSections(filtered, data, selections, i) ==
    IF i > Len(sections_to_process) THEN filtered
    ELSE LET key == sections_to_process[i] IN
         IF key \notin DOMAIN filtered
         THEN FilterSections(filtered, data, selections, i + 1)
         ELSE IF ~Truthy(SelGet(selections, SectionKey(key)))
         THEN FilterSections(Without(filtered, key), data, selections, i + 1)
         ELSE IF key \in ListKeys
         THEN LET filtered_items == KeptItems(data[key], key, selections, 1) IN
              IF filtered_items = <<>>
              THEN FilterSections(Without(filtered, key), data, selections, i + 1)
              ELSE FilterSections([filtered EXCEPT ![key] = filtered_items],
                                  data, selections, i + 1)
         ELSE FilterSections(filtered, data, selections, i + 1)

\* The contact overrides, written into the copy's contact mapping.
ContactOverrides(heap, filtered, selections) ==
    IF "contact" \notin DOMAIN filtered THEN heap
    ELSE LET a  == filtered["contact"]
             h1 == IF "contact-email" \in DOMAIN selections
                   THEN [heap EXCEPT ![a].email = selections["contact-email"]]
                   ELSE heap
         IN  IF "contact-location" \in DOMAIN selections
             THEN [h1 EXCEPT ![a].location = selections["contact-location"]]
             ELSE h1

\* filter_resume_data(data, selections): the heap after the call and the
\* returned record.
filter_resume_data(heap, data, selections) ==
    LET copy == DeepCopy(heap, data)
    IN  [heap |-> ContactOverrides(copy.heap, copy.out, selections),
         out  |-> FilterSections(copy.out, data, selections, 1)]

(***************************************************************************)
(* Specification SpecFilter: filter_resume_data on bounded inputs, then    *)
(* once more on its own result with the same selections                    *)
(***************************************************************************)
MaxItems == 3

\* A key the selection map does not hold.
Absent == "<absent>"

\* The objects of the argument record: the contact mapping at address 1,
\* MaxItems experience entries after it, one project last.
FilterHeap ==
    <<[email |-> "a@old", location |-> "SF"]>>
    \o [i \in 1..MaxItems |-> [title |-> "e" \o ToString(i), items |-> <<"b">>]]
    \o <<[title |-> "p1", items |-> <<"b">>]>>

FilterRecord(c) ==
    [k \in (IF c.name THEN {"name"} ELSE {})
           \cup (IF c.contact THEN {"contact"} ELSE {})
           \cup (IF c.summary THEN {"summary"} ELSE {})
           \cup {"experience"}
           \cup (IF c.projects THEN {"projects"} ELSE {}) |->
        CASE k = "name"       -> "Ann"
          [] k = "contact"    -> 1
          [] k = "summary"    -> "sum"
          [] k = "experience" -> [i \in 1..c.n |-> 1 + i]
          [] k = "projects"   -> <<MaxItems + 2>>]

FilterRecords ==
    {FilterRecord(c) : c \in [name : BOOLEAN, contact : BOOLEAN, summary : BOOLEAN,
                              n : 0..MaxItems, projects : BOOLEAN]}

\* The selection map holding each key of `pairs` whose value is not Absent.
SelFromPairs(pairs) ==
    LET present == {p \in pairs : p[2] # Absent}
    IN  [k \in {p[1] : p \in present} |-> (CHOOSE p \in present : p[1] = k)[2]]

FilterSelection(c) ==
    SelFromPairs({<<"select-summary", c.summary>>,
                  <<"select-experience", c.experience>>,
                  <<"select-projects", c.projects>>,
                  <<"select-name", c.name>>,
                  <<"contact-email", c.email>>}
                 \cup {<<ItemKey("experience", i), c.items[i]>> : i \in 0..MaxItems - 1})

FilterSelections ==
    {FilterSelection(c) :
        c \in [summary    : {Absent, "false"},
               experience : {Absent, "true", "false", "0"},
               projects   : {Absent, "false"},
               name       : {Absent, "false"},
               email      : {Absent, "n@new"},
               items      : {f \in [0..MaxItems - 1 -> {Absent, "false", "null"}] :
                                \A i \in 1..MaxItems - 1 : f[i] # "null"}]}

FilterInit ==
    /\ fHeap = FilterHeap
    /\ fData \in FilterRecords
    /\ fSel \in FilterSelections
    /\ fBefore = Val(fHeap, fData)
    /\ fOut = <<>>
    /\ fOut2 = <<>>
    /\ fPc = "ready"

FilterIdle ==
    /\ fHeap = <<>>
    /\ fData = <<>>
    /\ fSel = <<>>
    /\ fBefore = <<>>
    /\ fOut = <<>>
    /\ fOut2 = <<>>
    /\ fPc = "idle"

FilterCall ==
    /\ fPc = "ready"
    /\ LET r == filter_resume_data(fHeap, fData, fSel)
       IN  fHeap' = r.heap /\ fOut' = r.out
    /\ fPc' = "filtered"
    /\ UNCHANGED <<fData, fSel, fBefore, fOut2>>
    /\ UNCHANGED exceptFilter

FilterAgain ==
    /\ fPc = "filtered"
    /\ LET r == filter_resume_data(fHeap, fOut, fSel)
       IN  fHeap' = r.heap /\ fOut2' = r.out
    /\ fPc' = "refiltered"
    /\ UNCHANGED <<fData, fSel, fBefore, fOut>>
    /\ UNCHANGED exceptFilter

FilterNext == FilterCall \/ FilterAgain

(***************************************************************************)
(* merge_resume_data                                                       *)
(*                                                                         *)
(* generated_data holds "summary" (a string), "skills_reordered" and       *)
(* "projects_reordered" (sequences of addresses) and "experience_bullets"  *)
(* (a sequence of mappings [has, bullets]: has tells whether the mapping    *)
(* holds the key "bullets").                                               *)
(***************************************************************************)
GenListKeys == {"skills_reordered", "projects_reordered"}

\* The value of a generated record.
GenVal(heap, gen) ==
    [k \in DOMAIN gen |->
        IF k \in GenListKeys THEN [i \in 1..Len(gen[k]) |-> heap[gen[k][i]]]
        ELSE gen[k]]

\* exp_bullets.get('bullets', [])
BulletsOf(exp_bullets) ==
    IF exp_bullets.has THEN exp_bullets.bullets ELSE <<>>

\* Mutant: the trailing entries get the bullets of the last bullet set.
WriteBulletsToAll(heap, experience, experience_bullets) ==
    IF experience_bullets = <<>> THEN heap
    ELSE [a \in 1..Len(heap) |->
            IF \E i \in 1..Len(experience) : experience[i] = a
            THEN LET i == CHOOSE j \in 1..Len(experience) : experience[j] = a
                     k == IF i <= Len(experience_bullets) THEN i
                          ELSE Len(experience_bullets)
                 IN  [heap[a] EXCEPT !.items = BulletsOf(experience_bullets[k])]
            ELSE heap[a]]

\* Mutant: the loop also blanks the company of every entry it reaches.
WriteBulletsAndTitle(heap, experience, experience_bullets) ==
    LET n == IF Len(experience_bullets) < Len(experience)
             THEN Len(experience_bullets) ELSE Len(experience)
    IN  [a \in 1..Len(heap) |->
            IF \E i \in 1..n : experience[i] = a
            THEN [title |-> "", items |-> <<>>]
            ELSE heap[a]]

\* final_resume['experience'][i]['bullets'] = ... for every i the loop
\* reaches: the heap after the loop.
WriteBullets(heap, experience, experience_bullets) ==
    LET n == IF Len(experience_bullets) < Len(experience)
             THEN Len(experience_bullets) ELSE Len(experience)
        Hit(a) == {i \in 1..n : experience[i] = a}
        Last(S) == CHOOSE i \in S : \A j \in S : j <= i
    IN  [a \in 1..Len(heap) |->
            IF Hit(a) = {} THEN heap[a]
            ELSE [heap[a] EXCEPT !.items = BulletsOf(experience_bullets[Last(Hit(a))])]]

\* merge_resume_data(fixed_data, generated_data): the heap after the call
\* and the returned record.  final_resume = fixed_data.copy() is a new
\* mapping that holds the addresses fixed_data holds.
merge_resume_data(heap, fixed_data, generated_data) ==
    LET f0 == fixed_data
        f1 == IF "summary" \in DOMAIN generated_data
              THEN WithKey(f0, "summary", generated_data["summary"]) ELSE f0
        f2 == IF "skills_reordered" \in DOMAIN generated_data
              THEN WithKey(f1, "skills", generated_data["skills_reordered"])
              ELSE IF "skills" \in DOMAIN fixed_data
                   THEN WithKey(f1, "skills", fixed_data["skills"]) ELSE f1
        h1 == IF "experience_bullets" \in DOMAIN generated_data
                 /\ "experience" \in DOMAIN f2
              THEN WriteBullets(heap, f2["experience"],
                                generated_data["experience_bullets"])
              ELSE heap
        f3 == IF "projects_reordered" \in DOMAIN generated_data
              THEN WithKey(f2, "projects", generated_data["projects_reordered"])
              ELSE f2
    IN  [heap |-> h1, out |-> f3]

(***************************************************************************)
(* Specification SpecMerge: merge_resume_data on bounded inputs            *)
(***************************************************************************)
MaxExperience == 2
MaxBulletSets == 3

\* The fixed record's objects: the contact mapping at address 1, then
\* MaxExperience experience entries, a skills block and a project; then
\* the generated record's skills block and project.
MergeHeap ==
    <<[email |-> "a@old", location |-> "SF"]>>
    \o [i \in 1..MaxExperience |->
            [title |-> "co" \o ToString(i), items |-> <<"old" \o ToString(i)>>]]
    \o <<[title |-> "Lang", items |-> <<"Go", "Rust">>],
         [title |-> "p1", items |-> <<"b">>],
         [title |-> "Lang", items |-> <<"Rust", "Go">>],
         [title |-> "p2", items |-> <<"g">>]>>

MergeFixed(c) ==
    [k \in {"name", "contact", "summary", "projects"}
           \cup (IF c.skills THEN {"skills"} ELSE {})
           \cup (IF c.n >= 0 THEN {"experience"} ELSE {}) |->
        CASE k = "name"       -> "Ann"
          [] k = "contact"    -> 1
          [] k = "summary"    -> "sum"
          [] k = "skills"     -> <<MaxExperience + 2>>
          [] k = "experience" -> [i \in 1..c.n |-> 1 + i]
          [] k = "projects"   -> <<MaxExperience + 3>>]

MergeFixedRecords ==
    {MergeFixed(c) : c \in [skills : BOOLEAN, n : -1..MaxExperience]}

BulletSets == {[has |-> TRUE, bullets |-> <<"new">>], [has |-> FALSE, bullets |-> <<>>]}

MergeGenerated(c) ==
    [k \in (IF c.summary THEN {"summary"} ELSE {})
           \cup (IF c.skills THEN {"skills_reordered"} ELSE {})
           \cup (IF c.projects THEN {"projects_reordered"} ELSE {})
           \cup (IF c.hasBullets THEN {"experience_bullets"} ELSE {}) |->
        CASE k = "summary"            -> "tailored"
          [] k = "skills_reordered"   -> <<MaxExperience + 4>>
          [] k = "projects_reordered" -> <<MaxExperience + 5>>
          [] k = "experience_bullets" -> c.bullets]

MergeGeneratedRecords ==
    {MergeGenerated(c) :
        c \in {d \in [summary : BOOLEAN, skills : BOOLEAN, projects : BOOLEAN,
                      hasBullets : BOOLEAN,
                      bullets : SeqsUpTo(BulletSets, MaxBulletSets)] :
                  d.hasBullets \/ d.bullets = <<>>}}

MergeInit ==
    /\ mHeap = MergeHeap
    /\ mFixed \in MergeFixedRecords
    /\ mGen \in MergeGeneratedRecords
    /\ mBefore = [fixed |-> Val(mHeap, mFixed), generated |-> GenVal(mHeap, mGen)]
    /\ mOut = <<>>
    /\ mPc = "ready"

MergeIdle ==
    /\ mHeap = <<>>
    /\ mFixed = <<>>
    /\ mGen = <<>>
    /\ mBefore = <<>>
    /\ mOut = <<>>
    /\ mPc = "idle"

MergeCall ==
    /\ mPc = "ready"
    /\ LET r == merge_resume_data(mHeap, mFixed, mGen)
       IN  mHeap' = r.heap /\ mOut' = r.out
    /\ mPc' = "merged"
    /\ UNCHANGED <<mFixed, mGen, mBefore>>
    /\ UNCHANGED exceptMerge

MergeNext == MergeCall

(***************************************************************************)
(* merge_variables                                                         *)
(*                                                                         *)
(* A variables mapping holds, for each key of VarKeys, an entry            *)
(* [kind, v]: kind "absent" (the mapping has no such key), "scalar" (v is  *)
(* the value) or "dict" (v is the address of a nested mapping).  A nested  *)
(* mapping is a heap cell [a, b] of scalars, 0 for a key it does not hold. *)
(* A layer is [exists, none, top]: the file or field is there, its content *)
(* is None, and the mapping otherwise.                                     *)
(***************************************************************************)
VarKeys == <<"general", "styles">>

SubKeys == {"a", "b"}

NoEntry == [kind |-> "absent", v |-> 0]

\* The nested mappings a variables mapping refers to.
VarsAddresses(top) == {top[k].v : k \in {j \in DOMAIN top : top[j].kind = "dict"}}

\* The value of a variables mapping.
VarsVal(heap, top) ==
    [k \in DOMAIN top |->
        [kind   |-> top[k].kind,
         scalar |-> IF top[k].kind = "scalar" THEN top[k].v ELSE 0,
         cell   |-> IF top[k].kind = "dict" THEN heap[top[k].v]
                    ELSE [a |-> 0, b |-> 0]]]

\* copy.deepcopy(base)
VarsDeepCopy(heap, top) ==
    LET dicts  == SelectSeq(VarKeys, LAMBDA k : top[k].kind = "dict")
        New(k) == Len(heap) + (CHOOSE i \in 1..Len(dicts) : dicts[i] = k)
    IN  [heap |-> heap \o [i \in 1..Len(dicts) |-> heap[top[dicts[i]].v]],
         out  |-> [k \in DOMAIN top |->
                     IF top[k].kind = "dict" THEN [kind |-> "dict", v |-> New(k)]
                     ELSE top[k]]]

\* Mutant: the base keeps every key it holds.
MergeNestedBaseWins(base_cell, value_cell) ==
    [s \in SubKeys |-> IF base_cell[s] # 0 THEN base_cell[s] ELSE value_cell[s]]

\* merge_variables(merged[key], value) on two nested mappings of scalars:
\* a new mapping, each key of `value` written over the copy of the base.
MergeNested(base_cell, value_cell) ==
    [s \in SubKeys |-> IF value_cell[s] # 0 THEN value_cell[s] ELSE base_cell[s]]

\* for key, value in updates.items(): from the i-th key on.
RECURSIVE MergeKeys(_, _, _, _)
MergeKeys(heap, merged, updates, i) ==
    IF i > Len(VarKeys) THEN [heap |-> heap, out |-> merged]
    ELSE LET key   == VarKeys[i]
             value == updates[key]
         IN  IF value.kind = "absent"
             THEN MergeKeys(heap, merged, updates, i + 1)
             ELSE IF value.kind = "dict" /\ merged[key].kind = "dict"
             THEN MergeKeys(Append(heap, MergeNested(heap[merged[key].v],
                                                      heap[value.v])),
                            [merged EXCEPT ![key] = [kind |-> "dict",
                                                     v |-> Len(heap) + 1]],
                            updates, i + 1)
             ELSE \* merged[key] = value
                  MergeKeys(heap, [merged EXCEPT ![key] = value], updates, i + 1)

\* merge_variables(base, updates): the heap after the call and the
\* returned mapping.
merge_variables(heap, base, updates) ==
    LET merged == VarsDeepCopy(heap, base)
    IN  IF updates.none THEN merged
        ELSE MergeKeys(merged.heap, merged.out, updates.top, 1)

(***************************************************************************)
(* Specification SpecResolve: the variables of one render_pdf request      *)
(***************************************************************************)
\* The nested mappings of the layers: the defaults' at addresses 1 and 2,
\* the application's at 3 and 4, the request's at 5 and 6.  A layer's
\* scalars carry the layer's number.
LayerAddress(layer, key) == 2 * (layer - 1) + (IF key = "general" THEN 1 ELSE 2)

\* What a layer may hold under one key.
DefaultShapes == {"absent", "a", "ab"}
OverrideShapes == {"absent", "scalar", "empty", "a", "b"}

ShapeCell(layer, shape) ==
    [a |-> IF shape \in {"a", "ab"} THEN layer ELSE 0,
     b |-> IF shape \in {"b", "ab"} THEN layer ELSE 0]

ShapeEntry(layer, key, shape) ==
    CASE shape = "absent" -> NoEntry
      [] shape = "scalar" -> [kind |-> "scalar", v |-> 10 + layer]
      [] OTHER            -> [kind |-> "dict", v |-> LayerAddress(layer, key)]

LayerTop(layer, shapes) ==
    [k \in Range(VarKeys) |-> ShapeEntry(layer, k, shapes[k])]

ResolveHeap(c) ==
    [adr \in 1..6 |->
        LET layer == (adr + 1) \div 2
            key   == IF adr % 2 = 1 THEN "general" ELSE "styles"
            shape == IF layer = 1 THEN c.defaults[key]
                     ELSE IF layer = 2 THEN c.app[key] ELSE c.req[key]
        IN  ShapeCell(layer, shape)]

NoLayer == [exists |-> FALSE, none |-> TRUE, top |-> [k \in Range(VarKeys) |-> NoEntry]]

NoneLayer == [exists |-> TRUE, none |-> TRUE, top |-> [k \in Range(VarKeys) |-> NoEntry]]

AllAbsent == [k \in Range(VarKeys) |-> "absent"]

ResolveInputs ==
    [defaults : [Range(VarKeys) -> DefaultShapes],
     app      : [Range(VarKeys) -> OverrideShapes],
     req      : [Range(VarKeys) -> OverrideShapes],
     appFile  : {"missing", "none", "mapping"},
     reqField : {"none", "mapping"}]

ResolveInit ==
    \E c \in {d \in ResolveInputs :
                 /\ d.appFile # "mapping" => d.app = AllAbsent
                 /\ d.reqField # "mapping" => d.req = AllAbsent} :
        /\ vHeap = ResolveHeap(c)
        /\ vDefaults = [exists |-> TRUE, none |-> FALSE, top |-> LayerTop(1, c.defaults)]
        /\ vApp = IF c.appFile = "missing" THEN NoLayer
                  ELSE IF c.appFile = "none" THEN NoneLayer
                  ELSE [exists |-> TRUE, none |-> FALSE, top |-> LayerTop(2, c.app)]
        /\ vReq = IF c.reqField = "none" THEN NoneLayer
                  ELSE [exists |-> TRUE, none |-> FALSE, top |-> LayerTop(3, c.req)]
        /\ vBefore = [defaults |-> VarsVal(vHeap, vDefaults.top),
                      app      |-> VarsVal(vHeap, vApp.top),
                      req      |-> VarsVal(vHeap, vReq.top)]
        /\ vFinal = NoLayer.top
        /\ vPc = "ready"

ResolveIdle ==
    /\ vHeap = <<>>
    /\ vDefaults = NoLayer
    /\ vApp = NoLayer
    /\ vReq = NoLayer
    /\ vBefore = <<>>
    /\ vFinal = NoLayer.top
    /\ vPc = "idle"

\* final_vars = load_variables()
ResolveLoad ==
    /\ vPc = "ready"
    /\ vFinal' = vDefaults.top
    /\ vPc' = "loaded"
    /\ UNCHANGED <<vHeap, vDefaults, vApp, vReq, vBefore>>
    /\ UNCHANGED exceptResolve

\* if os.path.exists(custom_vars_path): final_vars = merge_variables(...)
ResolveApp ==
    /\ vPc = "loaded"
    /\ IF vApp.exists
       THEN LET r == merge_variables(vHeap, vFinal, vApp)
            IN  vHeap' = r.heap /\ vFinal' = r.out
       ELSE UNCHANGED <<vHeap, vFinal>>
    /\ vPc' = "app"
    /\ UNCHANGED <<vDefaults, vApp, vReq, vBefore>>
    /\ UNCHANGED exceptResolve

\* `if data.variables:` is false for None and for an empty mapping.
VariablesGiven(layer) ==
    /\ ~layer.none
    /\ \E k \in DOMAIN layer.top : layer.top[k].kind # "absent"

\* if data.variables: final_vars = merge_variables(final_vars, data.variables)
ResolveRequest ==
    /\ vPc = "app"
    /\ IF VariablesGiven(vReq)
       THEN LET r == merge_variables(vHeap, vFinal, vReq)
            IN  vHeap' = r.heap /\ vFinal' = r.out
       ELSE UNCHANGED <<vHeap, vFinal>>
    /\ vPc' = "resolved"
    /\ UNCHANGED <<vDefaults, vApp, vReq, vBefore>>
    /\ UNCHANGED exceptResolve

ResolveNext ==
    \/ ResolveLoad
    \/ ResolveApp
    \/ ResolveRequest

(***************************************************************************)
(* ATSResumePDFGenerator.preprocess_data_for_fitting                       *)
(***************************************************************************)
\* The heap after the call and the returned record: a deep copy of `data`
\* whose skills blocks hold the trimmed lists.
preprocess_data_for_fitting(heap, data, max_width) ==
    LET copy == DeepCopy(heap, data)
        blocks == IF "skills" \in DOMAIN copy.out THEN Range(copy.out["skills"]) ELSE {}
    IN  [heap |-> [a \in 1..Len(copy.heap) |->
                     IF a \in blocks
                     THEN [copy.heap[a] EXCEPT !.items =
                              get_trimmed_skills_list(copy.heap[a].title,
                                                      copy.heap[a].items,
                                                      max_width)]
                     ELSE copy.heap[a]],
         out  |-> copy.out]

(***************************************************************************)
(* The application directory                                               *)
(***************************************************************************)
\* f"tailored_resume_v{n}.yaml"
VersionFile(n) == [stem |-> "tailored_resume_v", num |-> n]

\* "tailored_resume.yaml"
LegacyFile == [stem |-> "tailored_resume", num |-> 0]

NoFile == [exists |-> FALSE, data |-> <<>>]

\* The decimal digits of a number.
RECURSIVE Digits(_)
Digits(n) == IF n < 10 THEN <<n>> ELSE Append(Digits(n \div 10), n % 10)

\* p comes before q, or is q, in the order of the texts.
RECURSIVE LexLeq(_, _)
LexLeq(p, q) ==
    IF p = <<>> THEN TRUE
    ELSE IF q = <<>> THEN FALSE
    ELSE IF Head(p) # Head(q) THEN Head(p) < Head(q)
    ELSE LexLeq(Tail(p), Tail(q))

\* Mutant: the files are sorted by the text of their names.
RECURSIVE SortByText(_)
SortByText(S) ==
    IF S = {} THEN <<>>
    ELSE LET top == CHOOSE f \in S : \A g \in S : LexLeq(Digits(g.num), Digits(f.num))
         IN  <<top>> \o SortByText(S \ {top})

\* The sequence of the elements of a set of file names, highest number first.
RECURSIVE SortDescending(_)
SortDescending(S) ==
    IF S = {} THEN <<>>
    ELSE LET top == CHOOSE f \in S : \A g \in S : g.num <= f.num
         IN  <<top>> \o SortDescending(S \ {top})

\* get_resume_versions(app_path) over the names in the directory
get_resume_versions(names) ==
    LET versions == {f \in names : f.stem = "tailored_resume_v"}
        sorted_filenames == SortDescending(versions)
    IN  IF LegacyFile \in names /\ LegacyFile \notin Range(sorted_filenames)
        THEN Append(sorted_filenames, LegacyFile)
        ELSE sorted_filenames

\* re.search(r'_v(\d+)\.yaml$', f) matches
HasVersionNumber(f) == f.stem = "tailored_resume_v"

\* Mutant: the new details are dropped.
keep_app_details(old, new_details) == old

\* Mutant: the next number is one more than the number of version files.
CountPlusOne(resume_versions) ==
    Cardinality({i \in 1..Len(resume_versions) : HasVersionNumber(resume_versions[i])}) + 1

\* version_numbers = [...]; max(version_numbers) + 1 if version_numbers else 1
new_version_num(resume_versions) ==
    LET version_numbers ==
            {resume_versions[i].num : i \in {j \in 1..Len(resume_versions) :
                                               HasVersionNumber(resume_versions[j])}}
    IN  IF version_numbers # {}
        THEN (CHOOSE n \in version_numbers : \A m \in version_numbers : m <= n) + 1
        ELSE 1

WriteFile(files, name, content) ==
    [f \in DOMAIN files \cup {name} |-> IF f = name THEN content ELSE files[f]]

RemoveFile(files, name) == [f \in DOMAIN files \ {name} |-> files[f]]

(***************************************************************************)
(* Specification SpecAllocate: two generate_resume calls on one            *)
(* application, each in a worker thread of its own, from the listing of    *)
(* the versions on.  A call's steps: list and number, open for writing     *)
(* (which creates or truncates the file), write and close (the buffered    *)
(* text reaches the file at its start).                                    *)
(***************************************************************************)
Generators == {1, 2}

\* final_resume_yaml of each call, in characters.
Draft(p) == IF p = 1 THEN <<"a", "a">> ELSE <<"b">>

\* Mutant: the text is written after what the file holds.
Concatenate(old, new) == old \o new

\* The file after a write of new at offset 0 over old.
Overlay(old, new) ==
    IF Len(new) >= Len(old) THEN new
    ELSE new \o SubSeq(old, Len(new) + 1, Len(old))

\* The directories the calls may start from.
AllocDirectories ==
    {[f \in names |-> <<"o">>] :
        names \in SUBSET {VersionFile(1), VersionFile(2), LegacyFile}}

AllocInit ==
    /\ aFiles \in AllocDirectories
    /\ aBefore = DOMAIN aFiles
    /\ aProc = [p \in Generators |-> [pc |-> "start", num |-> 0]]
    /\ aRaced = FALSE
    /\ aLast = 0

AllocIdle ==
    /\ aFiles = << >>
    /\ aBefore = {}
    /\ aProc = [p \in Generators |-> [pc |-> "idle", num |-> 0]]
    /\ aRaced = FALSE
    /\ aLast = 0

\* resume_versions = get_resume_versions(app_path); new_version_num = ...
GenAllocate(p) ==
    /\ aProc[p].pc = "start"
    /\ aProc' = [aProc EXCEPT ![p] =
                    [pc  |-> "allocated",
                     num |-> new_version_num(get_resume_versions(DOMAIN aFiles))]]
    /\ aRaced' = (aRaced \/ \E q \in Generators \ {p} : aProc[q].pc = "allocated")
    /\ UNCHANGED <<aFiles, aBefore, aLast>>
    /\ UNCHANGED exceptAlloc

\* with open(yaml_path, 'w', encoding='utf-8') as f:
GenOpen(p) ==
    /\ aProc[p].pc = "allocated"
    /\ LET yaml_path == VersionFile(aProc[p].num)
       IN  aFiles' = [f \in DOMAIN aFiles \cup {yaml_path} |->
                         IF f = yaml_path THEN <<>> ELSE aFiles[f]]
    /\ aProc' = [aProc EXCEPT ![p].pc = "open"]
    /\ UNCHANGED <<aBefore, aRaced, aLast>>
    /\ UNCHANGED exceptAlloc

\* f.write(final_resume_yaml), and the end of the with block.
GenFlush(p) ==
    /\ aProc[p].pc = "open"
    /\ aFiles' = [aFiles EXCEPT ![VersionFile(aProc[p].num)] = Overlay(@, Draft(p))]
    /\ aProc' = [aProc EXCEPT ![p].pc = "done"]
    /\ aLast' = p
    /\ UNCHANGED <<aBefore, aRaced>>
    /\ UNCHANGED exceptAlloc

AllocateStep == \E p \in Generators : GenAllocate(p)
OpenStep     == \E p \in Generators : GenOpen(p)
FlushStep    == \E p \in Generators : GenFlush(p)

AllocNext == AllocateStep \/ OpenStep \/ FlushStep

(***************************************************************************)
(* Specification SpecTracker: add_tracker_application and                  *)
(* delete_tracker_application on a tracker that starts empty               *)
(*                                                                         *)
(* An item is [id, company, role, jobId, createdAt]; a request carries the *)
(* same fields and the set of those the client sent (fields it did not     *)
(* send hold their defaults: a fresh id, jobId "", createdAt now).         *)
(***************************************************************************)
MaxTrackerCalls == 3

\* datetime.now().isoformat() at the n-th call.
Now(n) == IF n = 1 THEN "t1" ELSE IF n = 2 THEN "t2" ELSE IF n = 3 THEN "t3" ELSE "t4"

\* text.strip(), on the texts of the model.
Strip(text) == IF text = " " THEN "" ELSE text

\* if item.jobId and item.jobId.strip()
HasJobId(jobId) == jobId # "" /\ Strip(jobId) # ""

\* The requests the n-th call may carry: with no jobId sent, with a jobId
\* sent, and with a jobId and a createdAt sent.
TrackerRequests(n) ==
    {[id |-> n, company |-> "X", role |-> r, jobId |-> "", createdAt |-> Now(n),
      set |-> {"company", "role"}] : r \in {"R", "S"}}
    \cup {[id |-> n, company |-> "X", role |-> r, jobId |-> j, createdAt |-> Now(n),
           set |-> {"company", "role", "jobId"}] :
            r \in {"R", "S"}, j \in {"", " ", "J1", "J2"}}
    \cup {[id |-> n, company |-> "X", role |-> r, jobId |-> j, createdAt |-> c,
           set |-> {"company", "role", "jobId", "createdAt"}] :
            r \in {"R", "S"}, j \in {"", "J1"}, c \in {"", "t0"}}

\* next((i for i, app in enumerate(apps) if ...), -1) over the indexes that
\* satisfy the condition, with 0 for -1.
FirstIndex(matching) ==
    IF matching = {} THEN 0
    ELSE CHOOSE i \in matching : \A j \in matching : i <= j

\* Lines 757-762: the index of the item the request matches.
ExistingItemIndex(apps, item) ==
    LET sameJob  == {i \in 1..Len(apps) : apps[i].jobId = item.jobId}
        sameRole == {i \in 1..Len(apps) : /\ apps[i].company = item.company
                                          /\ apps[i].role = item.role}
        byJob == IF HasJobId(item.jobId) THEN FirstIndex(sameJob) ELSE 0
    IN  IF byJob # 0 THEN byJob ELSE FirstIndex(sameRole)

\* item.dict()
ItemDict(item) == [k \in {"id", "company", "role", "jobId", "createdAt"} |-> item[k]]

\* Lines 765-772: the existing item updated with the fields the client
\* sent, its id restored, and its createdAt restored when non-empty.
UpdatedData(app, item) ==
    [k \in DOMAIN app |->
        IF k = "id" THEN app[k]
        ELSE IF k = "createdAt" /\ app[k] # "" THEN app[k]
        ELSE IF k \in item.set THEN item[k] ELSE app[k]]

TrackInit ==
    /\ tApps = <<>>
    /\ tCalls = 0
    /\ tLast = [op |-> "none", status |-> 0, index |-> 0, before |-> <<>>]

TrackIdle ==
    /\ tApps = <<>>
    /\ tCalls = -1
    /\ tLast = [op |-> "none", status |-> 0, index |-> 0, before |-> <<>>]

add_tracker_application ==
    /\ tCalls \in 0..MaxTrackerCalls - 1
    /\ \E item \in TrackerRequests(tCalls + 1) :
         LET existing_item_index == ExistingItemIndex(tApps, item)
         IN  /\ tApps' = IF existing_item_index # 0
                         THEN [tApps EXCEPT ![existing_item_index] =
                                                UpdatedData(@, item)]
                         ELSE <<ItemDict(item)>> \o tApps     \* apps.insert(0, ...)
             /\ tLast' = [op |-> "add", status |-> 200,
                          index |-> existing_item_index, before |-> tApps]
    /\ tCalls' = tCalls + 1
    /\ UNCHANGED exceptTrack

delete_tracker_application ==
    /\ tCalls \in 0..MaxTrackerCalls - 1
    /\ \E item_id \in 1..MaxTrackerCalls :
         LET kept == SelectSeq(tApps, LAMBDA app : app.id # item_id)
         IN  IF Len(kept) = Len(tApps)
             THEN /\ tLast' = [op |-> "delete", status |-> 404, index |-> 0,
                               before |-> tApps]
                  /\ UNCHANGED tApps
             ELSE /\ tApps' = kept
                  /\ tLast' = [op |-> "delete", status |-> 204, index |-> 0,
                               before |-> tApps]
    /\ tCalls' = tCalls + 1
    /\ UNCHANGED exceptTrack

TrackNext == add_tracker_application \/ delete_tracker_application

(***************************************************************************)
(* Specification SpecVersions: get_resume_versions on a directory          *)
(*                                                                         *)
(* A name in the directory is [stem, digits, ext]: the text before the     *)
(* digits, the digits (a sequence of 0..9, possibly empty) and the text    *)
(* after them.                                                             *)
(***************************************************************************)
\* version_pattern.match(f): r'^tailored_resume_v(\d+)\.yaml$'
VersionMatch(name) ==
    /\ name.stem = "tailored_resume_v"
    /\ name.digits # <<>>
    /\ name.ext = ".yaml"

\* int(match.group(1))
RECURSIVE ParseInt(_)
ParseInt(digits) ==
    IF digits = <<>> THEN 0
    ELSE 10 * ParseInt(SubSeq(digits, 1, Len(digits) - 1)) + digits[Len(digits)]

\* "tailored_resume.yaml"
LegacyName == [stem |-> "tailored_resume", digits |-> <<>>, ext |-> ".yaml"]

\* The file a name of the directory stands for.
AsFile(name) == [stem |-> name.stem, num |-> ParseInt(name.digits)]

\* get_resume_versions(app_path) on a directory that may be missing.
ListVersions(dir) ==
    IF ~dir.exists THEN <<>>
    ELSE get_resume_versions({AsFile(n) : n \in {x \in dir.names :
                                                   VersionMatch(x) \/ x = LegacyName}})

\* The names a directory may hold: versions 1, 2, 9 and 10, the legacy
\* draft, and names the pattern does not match.
ListedNames ==
    {[stem |-> "tailored_resume_v", digits |-> ds, ext |-> ".yaml"] :
        ds \in {<<1>>, <<2>>, <<9>>, <<1, 0>>}}
    \cup {LegacyName,
          [stem |-> "finalized_resume", digits |-> <<>>, ext |-> ".yaml"],
          [stem |-> "tailored_resume_v", digits |-> <<>>, ext |-> ".yaml"],
          [stem |-> "tailored_resume_v", digits |-> <<2>>, ext |-> ".yaml.bak"],
          [stem |-> "old_tailored_resume_v", digits |-> <<3>>, ext |-> ".yaml"]}

ListInit ==
    /\ lDir \in {[exists |-> FALSE, names |-> {}]}
                \cup [exists : {TRUE}, names : SUBSET ListedNames]
    /\ lOut = <<>>
    /\ lPc = "ready"

ListIdle ==
    /\ lDir = [exists |-> FALSE, names |-> {}]
    /\ lOut = <<>>
    /\ lPc = "idle"

ListCall ==
    /\ lPc = "ready"
    /\ lOut' = ListVersions(lDir)
    /\ lPc' = "listed"
    /\ UNCHANGED lDir
    /\ UNCHANGED exceptList

ListNext == ListCall

(***************************************************************************)
(* generate_resume                                                         *)
(***************************************************************************)
MaxCalls == 3

\* The base resume (BASE_RESUME_PATH), loaded anew by every call.
BaseResume == MergeFixed([skills |-> TRUE, n |-> MaxExperience])

\* What the call of the content generator may come to, and the keys and
\* values merge_resume_data finds in the parsed content:
\*   "raises"     agent_resume_tailor raises (generator unavailable, empty
\*                response)
\*   "malformed"  yaml.safe_load raises YAMLError
\*   "empty"      the cleaned content is empty: yaml.safe_load returns None
\*   "text"       the content is prose, which yaml.safe_load returns as a
\*                string; `'summary' in generated_data` and the other
\*                membership tests are substring tests and find nothing
\*   "mapping"    the content is a mapping
GeneratorOutputs ==
    {[kind |-> "raises", data |-> <<>>],
     [kind |-> "malformed", data |-> <<>>],
     [kind |-> "empty", data |-> <<>>],
     [kind |-> "text", data |-> <<>>],
     [kind |-> "mapping",
      data |-> [summary |-> "tailored"]],
     [kind |-> "mapping",
      data |-> [summary |-> "tailored again",
                experience_bullets |-> <<[has |-> TRUE, bullets |-> <<"new">>]>>]]}

\* The status generate_resume answers with when it stops before a merged
\* record exists: 503 or 500 from the generator call, 500 for a YAMLError,
\* 500 for the TypeError merge_resume_data raises on None; 0 when it goes
\* on.
GenerateFailure(kind) ==
    CASE kind = "raises"    -> 503
      [] kind = "malformed" -> 500
      [] kind = "empty"     -> 500
      [] OTHER              -> 0

Idle == pc = "idle"

NoLocals == <<>>

NoRequest == [op |-> "none"]

\* Lines 394-423: the generator is called, its content parsed and merged,
\* the versions listed and the new number computed.
GenerateReceive ==
    /\ Idle
    /\ Len(returned) < MaxCalls
    /\ \E generated \in GeneratorOutputs :
         IF GenerateFailure(generated.kind) # 0
         THEN /\ response' = [op |-> "generate",
                              status |-> GenerateFailure(generated.kind),
                              number |-> 0]
              /\ UNCHANGED <<pc, locals>>
         ELSE LET merged == merge_resume_data(MergeHeap, BaseResume, generated.data)
                  resume_versions == get_resume_versions(DOMAIN drafts)
              IN  /\ locals' = [final_resume_yaml |-> Val(merged.heap, merged.out),
                                content |-> generated.kind,
                                resume_versions |-> resume_versions,
                                new_version_num |-> new_version_num(resume_versions)]
                  /\ pc' = "generate_write"
                  /\ response' = [op |-> "generate", status |-> 0, number |-> 0]
    /\ UNCHANGED <<drafts, finalizedYaml, finalPdf, details, request, returned,
                   latestRemoved, pre, slotBase>>
    /\ UNCHANGED exceptStore

\* Lines 425-435: the new version file is written and the call returns.
GenerateWrite ==
    /\ pc = "generate_write"
    /\ drafts' = WriteFile(drafts, VersionFile(locals.new_version_num),
                           locals.final_resume_yaml)
    /\ response' = [op |-> "generate", status |-> 200,
                    number |-> locals.new_version_num]
    /\ returned' = Append(returned,
                          [number |-> locals.new_version_num,
                           content |-> locals.content,
                           existed |-> {f.num : f \in {g \in DOMAIN drafts :
                                                        g.stem = "tailored_resume_v"}},
                           legacy  |-> LegacyFile \in DOMAIN drafts])
    /\ pc' = "idle"
    /\ locals' = NoLocals
    /\ UNCHANGED <<finalizedYaml, finalPdf, details, request, latestRemoved, pre, slotBase>>
    /\ UNCHANGED exceptStore

(***************************************************************************)
(* Removal of a draft file from the directory, behind the program's back   *)
(***************************************************************************)
IsLatest(f) ==
    /\ f.stem = "tailored_resume_v"
    /\ \A g \in DOMAIN drafts : g.stem = "tailored_resume_v" => g.num <= f.num

RemoveDraft ==
    /\ Idle
    /\ \E f \in DOMAIN drafts :
         /\ drafts' = RemoveFile(drafts, f)
         /\ latestRemoved' = (latestRemoved \/ IsLatest(f))
    /\ UNCHANGED <<finalizedYaml, finalPdf, details, pc, request, locals,
                   response, returned, pre, slotBase>>
    /\ UNCHANGED exceptStore

(***************************************************************************)
(* finalize_resume                                                         *)
(***************************************************************************)
\* The objects of a parsed request record: the contact mapping, one skills
\* block and two experience entries.
FinalizeHeap ==
    <<[email |-> "a@old", location |-> "SF"],
      [title |-> "Lang", items |-> <<"Go", "Rust">>],
      [title |-> "co1", items |-> <<"b1">>],
      [title |-> "co2", items |-> <<"b2">>]>>

FinalizeRecord(c) ==
    [k \in {"contact", "experience"}
           \cup (IF c.name THEN {"name"} ELSE {})
           \cup (IF c.skills THEN {"skills"} ELSE {}) |->
        CASE k = "name"       -> "Ann Lee"
          [] k = "contact"    -> 1
          [] k = "skills"     -> <<2>>
          [] k = "experience" -> <<3, 4>>]

\* request.resumeYaml, parsed: ok is FALSE when yaml.safe_load raises.
FinalizeYamls ==
    {[ok |-> FALSE, data |-> <<>>]}
    \cup {[ok |-> TRUE, data |-> FinalizeRecord(c)] :
             c \in [name : BOOLEAN, skills : BOOLEAN]}

FinalizeSelections ==
    {SelFromPairs({<<"select-experience-0", v>>}) : v \in {Absent, "false"}}

\* request.variables: whether they define the Skills style, and the width
\* left for a skills line (doc width less indents and padding).
FinalizeVariables ==
    {[skillsStyle |-> FALSE, max_width |-> 20]}
    \cup [skillsStyle : {TRUE}, max_width : {5, 9, 20}]

FinalizeRequests ==
    [op : {"finalize"}, resumeYaml : FinalizeYamls, selections : FinalizeSelections,
     variables : FinalizeVariables, baseVersionFile : {VersionFile(n) : n \in 1..2}]

\* Lines 493-511: the record is parsed and filtered and its name checked.
FinalizeReceive ==
    /\ Idle
    /\ \E req \in FinalizeRequests :
         /\ IF ~req.resumeYaml.ok
            THEN /\ response' = [op |-> "finalize", status |-> 400, number |-> 0]
                 /\ UNCHANGED <<pc, locals, request>>
            ELSE LET original_data == req.resumeYaml.data
                     filtered == filter_resume_data(FinalizeHeap, original_data,
                                                    req.selections)
                 IN  IF "name" \notin DOMAIN filtered.out
                        /\ "name" \notin DOMAIN original_data
                     THEN /\ response' = [op |-> "finalize", status |-> 400,
                                          number |-> 0]
                          /\ UNCHANGED <<pc, locals, request>>
                     ELSE /\ request' = req
                          /\ locals' =
                               [heap |-> filtered.heap,
                                final_resume_data |->
                                    IF "name" \notin DOMAIN filtered.out
                                    THEN WithKey(filtered.out, "name",
                                                 original_data["name"])
                                    ELSE filtered.out]
                          /\ pc' = "finalize_save"
                          /\ response' = [op |-> "finalize", status |-> 0,
                                          number |-> 0]
    /\ pre' = [finalizedYaml |-> finalizedYaml,
               finalizedBaseVersion |-> details.finalizedBaseVersion]
    /\ UNCHANGED <<drafts, finalizedYaml, finalPdf, details, returned,
                   latestRemoved, slotBase>>
    /\ UNCHANGED exceptStore

\* Lines 513-516: finalized_resume.yaml is written.
FinalizeSaveYaml ==
    /\ pc = "finalize_save"
    /\ finalizedYaml' = [exists |-> TRUE,
                         data |-> Val(locals.heap, locals.final_resume_data)]
    /\ slotBase' = request.baseVersionFile
    /\ pc' = "finalize_render"
    /\ UNCHANGED <<drafts, finalPdf, details, request, locals, response,
                   returned, latestRemoved, pre>>
    /\ UNCHANGED exceptStore

\* self.styles['Skills'] raises KeyError when the variables define no
\* Skills style and the record has skills.
FittingRaises(req, data) ==
    /\ ~req.variables.skillsStyle
    /\ "skills" \in DOMAIN data
    /\ data["skills"] # <<>>

\* Lines 519-530 and 543-547: the record is fitted and rendered, or the
\* fitting or the renderer raises and the call answers 500.
FinalizeRender ==
    /\ pc = "finalize_render"
    /\ \E rendererRaises \in BOOLEAN :
         IF rendererRaises \/ FittingRaises(request, locals.final_resume_data)
         THEN /\ response' = [op |-> "finalize", status |-> 500, number |-> 0]
              /\ pc' = "idle"
              /\ locals' = NoLocals
              /\ request' = NoRequest
              /\ UNCHANGED finalPdf
         ELSE LET trimmed == preprocess_data_for_fitting(locals.heap,
                                                         locals.final_resume_data,
                                                         request.variables.max_width)
              IN  /\ finalPdf' = [exists |-> TRUE,
                                  data |-> Val(trimmed.heap, trimmed.out)]
                  /\ pc' = "finalize_update"
                  /\ UNCHANGED <<locals, response, request>>
    /\ UNCHANGED <<drafts, finalizedYaml, details, returned, latestRemoved, pre, slotBase>>
    /\ UNCHANGED exceptStore

\* "".join(c if c.isalnum() else '_' for c in name), on the names of the
\* model's records.
SafeName(name) ==
    CASE name = "Ann Lee" -> "Ann_Lee"
      [] name = "Ann"     -> "Ann"
      [] OTHER            -> "_"

\* update_app_details(app_path, new_details): details.update(new_details)
update_app_details(old, new_details) ==
    [k \in DOMAIN old |-> IF k \in DOMAIN new_details THEN new_details[k] ELSE old[k]]

\* Lines 532-541: app_details.json is updated and the call returns.
FinalizeUpdate ==
    /\ pc = "finalize_update"
    /\ details' = update_app_details(details,
                      [name |-> SafeName(locals.final_resume_data["name"]),
                       finalizedBaseVersion |-> request.baseVersionFile])
    /\ response' = [op |-> "finalize", status |-> 200, number |-> 0]
    /\ pc' = "idle"
    /\ locals' = NoLocals
    /\ request' = NoRequest
    /\ UNCHANGED <<drafts, finalizedYaml, finalPdf, returned, latestRemoved, pre, slotBase>>
    /\ UNCHANGED exceptStore

(***************************************************************************)
(* Formatting variables as the skills fitting consumes them                *)
(*                                                                         *)
(* A variable set is [skillsStyle, max_width]: whether it holds the style  *)
(* "skills", and the width that style leaves for a skills line.            *)
(***************************************************************************)
\* load_variables(): the shipped variables define the Skills style.
StoreDefaults == [skillsStyle |-> TRUE, max_width |-> 20]

\* A variable set that holds no skills style.
NoVariables == [skillsStyle |-> FALSE, max_width |-> 20]

\* merge_variables(base, updates) on variable sets: the skills style of
\* the updates where they hold one, the base's otherwise.
MergedStyle(base, updates) == IF updates.skillsStyle THEN updates ELSE base

NoCustom == [exists |-> FALSE, vars |-> NoVariables]

\* final_vars of render_pdf: the defaults, the saved overrides, the
\* request's overrides.
ResolvedVariables(saved, given) ==
    MergedStyle(IF saved.exists THEN MergedStyle(StoreDefaults, saved.vars)
                ELSE StoreDefaults,
                given)

\* Nothing returned yet.  resumeYaml is <<>> for the empty text and
\* <<content>> for the content of a file; seen is the directory and the
\* recorded base version the call found.
NoShown == [called |-> FALSE,
            base_version_file |-> [stem |-> "", num |-> 0],
            resumeYaml |-> <<>>,
            seen |-> [drafts |-> <<>>, base |-> [stem |-> "", num |-> 0]]]

ViewInit ==
    /\ customVars = NoCustom
    /\ previewPdf = [exists |-> FALSE, data |-> <<>>]
    /\ shown = NoShown

(***************************************************************************)
(* save_variables and render_pdf                                           *)
(***************************************************************************)
SavedVariableSets == {NoVariables, [skillsStyle |-> TRUE, max_width |-> 9]}

\* save_variables: custom_variables.yaml is written.
SaveVariables ==
    /\ Idle
    /\ \E given \in SavedVariableSets :
         customVars' = [exists |-> TRUE, vars |-> given]
    /\ response' = [op |-> "save_variables", status |-> 200, number |-> 0]
    /\ UNCHANGED <<previewPdf, shown>>
    /\ UNCHANGED <<drafts, finalizedYaml, finalPdf, details, pc, request, locals,
                   returned, latestRemoved, pre, slotBase>>
    /\ UNCHANGED exceptView

\* Mutant: the preview is written under the final document's name.
preview_as_final == "Resume_Ann_Lee.pdf"

\* pdf_path of render_pdf
preview_pdf_path == "tailored_resume_preview.pdf"

\* final_pdf_name = f"Resume_{safe_name}.pdf"
final_pdf_name(safe_name) == "Resume_" \o safe_name \o ".pdf"

\* generate_pdf_from_data(data, pdf_path), seen from the file at `path`:
\* the file holds the rendered record when it is the one written.
generate_pdf_from_data(file, path, data, pdf_path) ==
    IF pdf_path = path THEN [exists |-> TRUE, data |-> data] ELSE file

PreviewRequests ==
    [resumeYaml : {[ok |-> FALSE, data |-> <<>>]}
                  \cup {[ok |-> TRUE, data |-> FinalizeRecord(c)] :
                           c \in [name : {TRUE}, skills : BOOLEAN]},
     variables : {NoVariables, [skillsStyle |-> TRUE, max_width |-> 5]}]

\* render_pdf: the record is parsed, the variables resolved, the record
\* fitted and rendered into the preview document.  An exception of the
\* fitting or of the renderer is not caught: the call answers 500.
PreviewRender ==
    /\ Idle
    /\ \E req \in PreviewRequests, rendererRaises \in BOOLEAN :
         IF ~req.resumeYaml.ok
         THEN /\ response' = [op |-> "preview", status |-> 400, number |-> 0]
              /\ UNCHANGED <<previewPdf, finalPdf>>
         ELSE LET final_vars == ResolvedVariables(customVars, req.variables)
                  resume_data == req.resumeYaml.data
              IN  IF rendererRaises
                     \/ FittingRaises([variables |-> final_vars], resume_data)
                  THEN /\ response' = [op |-> "preview", status |-> 500,
                                       number |-> 0]
                       /\ UNCHANGED <<previewPdf, finalPdf>>
                  ELSE LET trimmed == preprocess_data_for_fitting(
                                          FinalizeHeap, resume_data,
                                          final_vars.max_width)
                           rendered == Val(trimmed.heap, trimmed.out)
                       IN  /\ previewPdf' = generate_pdf_from_data(
                                               previewPdf, preview_pdf_path,
                                               rendered, preview_pdf_path)
                           /\ finalPdf' = generate_pdf_from_data(
                                             finalPdf, final_pdf_name(details.name),
                                             rendered, preview_pdf_path)
                           /\ response' = [op |-> "preview", status |-> 200,
                                           number |-> 0]
    /\ UNCHANGED <<customVars, shown>>
    /\ UNCHANGED <<drafts, finalizedYaml, details, pc, request, locals,
                   returned, latestRemoved, pre, slotBase>>
    /\ UNCHANGED exceptView

(***************************************************************************)
(* Specification SpecRace: one artifact file (a draft version or           *)
(* finalized_resume.yaml), written by one request while another reads it.  *)
(* The handlers are plain `def` endpoints, which the server runs in        *)
(* separate threads.                                                       *)
(*                                                                         *)
(* with open(path, 'w') as f: f.write(text) / yaml.dump(data, f)           *)
(* truncates or creates the file when it opens it; the text reaches the    *)
(* file when the buffer is flushed, at the latest when the file is closed. *)
(***************************************************************************)
MaxWrites == 2

\* The texts a request may write, in chunks as the buffer may flush them.
RaceContents ==
    {<<"name: Ann", "summary: old">>, <<"name: Ann", "summary: new">>}

ReaderIdle == [pc |-> "idle", status |-> 0, content |-> <<>>]

RaceInit ==
    /\ cKind \in {"draft", "finalized"}
    /\ cFile \in {[exists |-> FALSE, content |-> <<>>]}
                 \cup {[exists |-> TRUE, content |-> c] : c \in RaceContents}
    \* a draft version is written under a new name
    /\ cKind = "draft" => ~cFile.exists
    /\ cWriter = [pc |-> "idle", content |-> <<>>, count |-> 0]
    /\ cReader = ReaderIdle
    /\ cPublished = IF cFile.exists THEN {cFile.content} ELSE {}

RaceIdle ==
    /\ cKind = "none"
    /\ cFile = [exists |-> FALSE, content |-> <<>>]
    /\ cWriter = [pc |-> "off", content |-> <<>>, count |-> 0]
    /\ cReader = [pc |-> "off", status |-> 0, content |-> <<>>]
    /\ cPublished = {}

\* open(path, 'w'): the file is created, or truncated, under its own name.
\* A draft is written once (generate_resume), the finalized slot by every
\* finalize request.
RaceWriteOpen ==
    /\ cWriter.pc = "idle"
    /\ cWriter.count < (IF cKind = "draft" THEN 1 ELSE MaxWrites)
    /\ \E text \in RaceContents :
         /\ cWriter' = [pc |-> "open", content |-> text, count |-> cWriter.count + 1]
         /\ cPublished' = cPublished \cup {text}
    /\ cFile' = [exists |-> TRUE, content |-> <<>>]
    /\ UNCHANGED <<cKind, cReader>>
    /\ UNCHANGED exceptRace

\* The buffer is flushed before the text is complete.
RaceWriteFlush ==
    /\ cWriter.pc = "open"
    /\ \E k \in Len(cFile.content) + 1..Len(cWriter.content) - 1 :
         cFile' = [cFile EXCEPT !.content = SubSeq(cWriter.content, 1, k)]
    /\ UNCHANGED <<cKind, cWriter, cReader, cPublished>>
    /\ UNCHANGED exceptRace

\* Leaving the `with` block: the rest is flushed and the file closed.
RaceWriteClose ==
    /\ cWriter.pc = "open"
    /\ cFile' = [cFile EXCEPT !.content = cWriter.content]
    /\ cWriter' = [cWriter EXCEPT !.pc = "idle"]
    /\ UNCHANGED <<cKind, cReader, cPublished>>
    /\ UNCHANGED exceptRace

\* if not os.path.exists(file_path): 404 for a draft, no finalized content
\* for the finalized slot.
RaceReadCheck ==
    /\ cReader.pc \in {"idle", "done"}
    /\ cReader' = IF cFile.exists
                  THEN [pc |-> "found", status |-> 0, content |-> <<>>]
                  ELSE [pc |-> "done", status |-> 404, content |-> <<>>]
    /\ UNCHANGED <<cKind, cFile, cWriter, cPublished>>
    /\ UNCHANGED exceptRace

\* with open(file_path, 'r') as f: content = f.read()
RaceReadContent ==
    /\ cReader.pc = "found"
    /\ cReader' = [pc |-> "done", status |-> 200, content |-> cFile.content]
    /\ UNCHANGED <<cKind, cFile, cWriter, cPublished>>
    /\ UNCHANGED exceptRace

RaceNext ==
    \/ RaceWriteOpen
    \/ RaceWriteFlush
    \/ RaceWriteClose
    \/ RaceReadCheck
    \/ RaceReadContent

(***************************************************************************)
(* Specifications Spec and SpecFinalize: requests against one application, *)
(* one at a time                                                           *)
(***************************************************************************)
\* app_details.json holds no finalizedBaseVersion yet.
NoBase == [stem |-> "", num |-> 0]

(***************************************************************************)
(* get_application_details                                                 *)
(***************************************************************************)
\* Mutant: the recorded base version is not looked at.
LatestVersionFile(finalized_base_version, files, resume_versions) ==
    IF resume_versions # <<>> THEN resume_versions[1] ELSE NoBase

\* Lines 310-314: base_version_file (NoBase for None).
BaseVersionFile(finalized_base_version, files, resume_versions) ==
    IF finalized_base_version # NoBase /\ finalized_base_version \in DOMAIN files
    THEN finalized_base_version
    ELSE IF resume_versions # <<>> THEN resume_versions[1] ELSE NoBase

\* Lines 308-320 and 345: the versions are listed, the base version file
\* chosen and its content read.
GetDetails ==
    /\ Idle
    /\ LET resume_versions == get_resume_versions(DOMAIN drafts)
           base_version_file == BaseVersionFile(details.finalizedBaseVersion,
                                                drafts, resume_versions)
       IN  shown' = [called |-> TRUE,
                     base_version_file |-> base_version_file,
                     resumeYaml |-> IF base_version_file # NoBase
                                       /\ base_version_file \in DOMAIN drafts
                                    THEN <<drafts[base_version_file]>>
                                    ELSE <<>>,
                     seen |-> [drafts |-> drafts,
                               base |-> details.finalizedBaseVersion]]
    /\ response' = [op |-> "details", status |-> 200, number |-> 0]
    /\ UNCHANGED <<drafts, finalizedYaml, finalPdf, details, pc, request, locals,
                   returned, latestRemoved, pre, slotBase>>
    /\ UNCHANGED <<customVars, previewPdf>>
    /\ UNCHANGED exceptView

StoreInit ==
    /\ drafts \in {<<>>, [f \in {LegacyFile} |-> <<>>]}
    /\ finalizedYaml = NoFile
    /\ finalPdf = NoFile
    /\ details = [name |-> "", finalizedBaseVersion |-> NoBase]
    /\ pc = "idle"
    /\ request = NoRequest
    /\ locals = NoLocals
    /\ response = [op |-> "none", status |-> 0, number |-> 0]
    /\ returned = <<>>
    /\ latestRemoved = FALSE
    /\ pre = [finalizedYaml |-> NoFile, finalizedBaseVersion |-> NoBase]
    /\ slotBase = NoBase

StoreIdle ==
    /\ drafts = <<>>
    /\ finalizedYaml = NoFile
    /\ finalPdf = NoFile
    /\ details = [name |-> "", finalizedBaseVersion |-> NoBase]
    /\ pc = "off"
    /\ request = NoRequest
    /\ locals = NoLocals
    /\ response = [op |-> "none", status |-> 0, number |-> 0]
    /\ returned = <<>>
    /\ latestRemoved = FALSE
    /\ pre = [finalizedYaml |-> NoFile, finalizedBaseVersion |-> NoBase]
    /\ slotBase = NoBase

\* Generation requests and removals of draft files.
VersionsNext ==
    \/ GenerateReceive
    \/ GenerateWrite
    \/ RemoveDraft

\* Finalize requests.
FinalizeNext ==
    \/ FinalizeReceive
    \/ FinalizeSaveYaml
    \/ FinalizeRender
    \/ FinalizeUpdate

(***************************************************************************)
(* Specifications                                                          *)
(***************************************************************************)
InitFit == FitInit /\ FilterIdle /\ MergeIdle /\ ResolveIdle /\ StoreIdle /\ RaceIdle /\ ViewInit
    /\ ListIdle /\ LoopIdle /\ AllocIdle /\ TrackIdle

SpecFit == InitFit /\ [][FitNext]_vars

InitFitScenario ==
    FitScenarioInit /\ FilterIdle /\ MergeIdle /\ ResolveIdle /\ StoreIdle
    /\ RaceIdle /\ ViewInit /\ ListIdle /\ LoopIdle /\ AllocIdle /\ TrackIdle

SpecFitScenario == InitFitScenario /\ [][FitNext]_vars

InitFilter == FilterInit /\ FitIdle /\ MergeIdle /\ ResolveIdle /\ StoreIdle /\ RaceIdle /\ ViewInit
    /\ ListIdle /\ LoopIdle /\ AllocIdle /\ TrackIdle

SpecFilter == InitFilter /\ [][FilterNext]_vars

InitMerge == MergeInit /\ FitIdle /\ FilterIdle /\ ResolveIdle /\ StoreIdle /\ RaceIdle /\ ViewInit
    /\ ListIdle /\ LoopIdle /\ AllocIdle /\ TrackIdle

SpecMerge == InitMerge /\ [][MergeNext]_vars

InitResolve == ResolveInit /\ FitIdle /\ FilterIdle /\ MergeIdle /\ StoreIdle /\ RaceIdle /\ ViewInit
    /\ ListIdle /\ LoopIdle /\ AllocIdle /\ TrackIdle

SpecResolve == InitResolve /\ [][ResolveNext]_vars

InitRace ==
    RaceInit /\ FitIdle /\ FilterIdle /\ MergeIdle /\ ResolveIdle /\ StoreIdle
    /\ ViewInit /\ ListIdle /\ LoopIdle /\ AllocIdle /\ TrackIdle

InitVersions ==
    ListInit /\ FitIdle /\ FilterIdle /\ MergeIdle /\ ResolveIdle /\ StoreIdle
    /\ RaceIdle /\ ViewInit /\ LoopIdle /\ AllocIdle /\ TrackIdle

InitLoop ==
    LoopInit /\ FitIdle /\ FilterIdle /\ MergeIdle /\ ResolveIdle /\ StoreIdle
    /\ RaceIdle /\ ViewInit /\ ListIdle /\ AllocIdle /\ TrackIdle

InitAllocate ==
    AllocInit /\ FitIdle /\ FilterIdle /\ MergeIdle /\ ResolveIdle /\ StoreIdle
    /\ RaceIdle /\ ViewInit /\ ListIdle /\ LoopIdle /\ TrackIdle

InitTracker ==
    TrackInit /\ FitIdle /\ FilterIdle /\ MergeIdle /\ ResolveIdle /\ StoreIdle
    /\ RaceIdle /\ ViewInit /\ ListIdle /\ LoopIdle /\ AllocIdle

SpecTracker == InitTracker /\ [][TrackNext]_vars

SpecAllocate == InitAllocate /\ [][AllocNext]_vars

SpecLoop == InitLoop /\ [][LoopNext]_vars /\ WF_vars(LoopNext)

SpecVersions == InitVersions /\ [][ListNext]_vars

SpecRace == InitRace /\ [][RaceNext]_vars

Init == StoreInit /\ FitIdle /\ FilterIdle /\ MergeIdle /\ ResolveIdle /\ RaceIdle /\ ViewInit
    /\ ListIdle /\ LoopIdle /\ AllocIdle /\ TrackIdle

Next == VersionsNext

Spec == Init /\ [][Next]_vars

SpecFinalize == Init /\ [][FinalizeNext]_vars

\* The client of the end-to-end scenario: it sends its finalize requests
\* once MaxCalls versions were created, until one has written the slot.
ScenarioFinalizeReceive ==
    /\ Len(returned) = MaxCalls
    /\ ~finalizedYaml.exists
    /\ FinalizeReceive

\* Generation requests, then finalize requests, against one application.
LifecycleNext ==
    \/ GenerateReceive
    \/ GenerateWrite
    \/ ScenarioFinalizeReceive
    \/ FinalizeSaveYaml
    \/ FinalizeRender
    \/ FinalizeUpdate

SpecLifecycle == Init /\ [][LifecycleNext]_vars

\* A first finalize call whose record is whole, with no item deselected
\* and with variables that hold the skills style.
PlainFinalizeReceive ==
    /\ ~finalizedYaml.exists
    /\ FinalizeReceive
    /\ pc' = "finalize_save"
    /\ request'.resumeYaml.data = FinalizeRecord([name |-> TRUE, skills |-> TRUE])
    /\ request'.selections = SelFromPairs({<<"select-experience-0", Absent>>})
    /\ request'.variables = StoreDefaults

\* The drafts generate_resume writes: the base resume merged with the
\* mappings the generator may return.
DraftContents ==
    {Val(m.heap, m.out) :
        m \in {merge_resume_data(MergeHeap, BaseResume, g.data) :
                  g \in {o \in GeneratorOutputs : GenerateFailure(o.kind) = 0}}}

\* The directories generate_resume calls and removals leave: versions 1
\* and 2 and the legacy draft, each there or not.
DetailsDirectories ==
    UNION {[names -> DraftContents] :
             names \in SUBSET {VersionFile(1), VersionFile(2), LegacyFile}}

InitDetails ==
    /\ drafts \in DetailsDirectories
    /\ finalizedYaml = NoFile
    /\ finalPdf = NoFile
    /\ details = [name |-> "", finalizedBaseVersion |-> NoBase]
    /\ pc = "idle"
    /\ request = NoRequest
    /\ locals = NoLocals
    /\ response = [op |-> "none", status |-> 0, number |-> 0]
    /\ returned = <<>>
    /\ latestRemoved = FALSE
    /\ pre = [finalizedYaml |-> NoFile, finalizedBaseVersion |-> NoBase]
    /\ slotBase = NoBase
    /\ FitIdle /\ FilterIdle /\ MergeIdle /\ ResolveIdle /\ RaceIdle /\ ViewInit
    /\ ListIdle /\ LoopIdle /\ AllocIdle /\ TrackIdle

\* Drafts are removed, one of them is finalized, and the details are read
\* at any time between the calls.
DetailsNext ==
    \/ RemoveDraft
    \/ PlainFinalizeReceive
    \/ FinalizeSaveYaml
    \/ FinalizeRender
    \/ FinalizeUpdate
    \/ GetDetails

SpecDetails == InitDetails /\ [][DetailsNext]_vars

\* A client that sends finalize requests until one has written the slot.
FirstFinalizeReceive ==
    /\ ~finalizedYaml.exists
    /\ FinalizeReceive

\* Finalize requests, with saves of the application's variables and
\* preview renders before, between and after them.
PreviewNext ==
    \/ FirstFinalizeReceive
    \/ FinalizeSaveYaml
    \/ FinalizeRender
    \/ FinalizeUpdate
    \/ SaveVariables
    \/ PreviewRender

SpecPreview == Init /\ [][PreviewNext]_vars

(***************************************************************************)
(* Properties of get_trimmed_skills_list (SpecFit)                         *)
(***************************************************************************)
FitLine(skills) == BaseText(fitIn.category) \o JoinSkills(skills)

\* Some non-empty prefix of the input fits on one line.
SomePrefixFits ==
    \E k \in 1..Len(fitIn.skills) :
        FitsOneLine(FitLine(SubSeq(fitIn.skills, 1, k)), fitIn.width)

C6_ResultFits == fitDone => FitsOneLine(FitLine(fitOut), fitIn.width)

\* C6 amended: the line of a returned non-empty list fits on one line; the
\* empty list is returned only when the bare label does not fit.
C6_NonEmptyResultFits ==
    fitDone =>
        /\ fitOut # <<>> => FitsOneLine(FitLine(fitOut), fitIn.width)
        /\ fitOut = <<>> => ~FitsOneLine(BaseText(fitIn.category), fitIn.width)

\* A call whose full list does not fit and whose result is non-empty.
C6_Witness ==
    /\ fitDone
    /\ ~FitsOneLine(FitLine(fitIn.skills), fitIn.width)
    /\ fitOut # <<>>
    /\ fitOut # <<"">>

\* C14: fitting the returned list again, with the same category and
\* width, returns it unchanged.
C14_FitIdempotent == fitDone2 => fitOut2 = fitOut

\* Fitted twice: a three-skill list that was trimmed to a shorter,
\* non-empty prefix.
C14_Witness ==
    /\ fitDone2
    /\ Len(fitIn.skills) = 3
    /\ Len(fitOut) \in 1..2
    /\ fitOut[1] # ""
    /\ fitOut2 = fitOut

\* C24 as claimed: with a line limit of 40 characters the scenario's list
\* is cut to its first three skills.
C24_ReturnsThree ==
    (fitDone /\ fitIn.skills = ScenarioSkills /\ fitIn.width = 40) =>
        fitOut = <<"Python", "Go", "Rust">>

\* C24 amended: with a line limit of 40 characters the whole list is
\* returned (its line, "Languages: Python, Go, Rust, Java, C++", has 38
\* characters); the first three skills are returned for the limits from 27
\* to 32, the lengths at which their line fits and the line with "Java"
\* does not.
C24_ScenarioFits ==
    (fitDone /\ fitIn.skills = ScenarioSkills) =>
        /\ fitIn.width = 40 => fitOut = ScenarioSkills
        /\ fitIn.width \in 27..32 => fitOut = <<"Python", "Go", "Rust">>

\* The scenario's list fitted at 40.
C24_Witness ==
    /\ fitDone
    /\ fitIn.category = "Languages"
    /\ fitIn.skills = ScenarioSkills
    /\ fitIn.width = 40
    /\ fitOut = ScenarioSkills

(***************************************************************************)
(* Properties of filter_resume_data (SpecFilter)                           *)
(***************************************************************************)
\* The selection map holds a false value for an item of a list of `data`.
ExcludesAnItem(data, selections) ==
    \E key \in DOMAIN data \cap ListKeys :
        \E i \in 0..Len(data[key]) - 1 :
            ~Truthy(SelGet(selections, ItemKey(key, i)))

\* C4 as claimed: filtering the filtered record again with the same
\* selection map returns an equal record, item-level exclusions included.
C4_Idempotent ==
    fPc = "refiltered" => Val(fHeap, fOut2) = Val(fHeap, fOut)

\* C4 amended: filtering again returns an equal record whenever the
\* selection map excludes no individual list item of the record.
C4_IdempotentWithoutItemKeys ==
    (fPc = "refiltered" /\ ~ExcludesAnItem(fData, fSel))
        => Val(fHeap, fOut2) = Val(fHeap, fOut)

\* Filtered twice with a section-level exclusion and a contact override,
\* the experience list surviving.
C4_Witness ==
    /\ fPc = "refiltered"
    /\ ~ExcludesAnItem(fData, fSel)
    /\ "select-projects" \in DOMAIN fSel
    /\ "contact-email" \in DOMAIN fSel
    /\ "projects" \in DOMAIN fData
    /\ "contact" \in DOMAIN fData
    /\ "experience" \in DOMAIN fOut2
    /\ Len(fOut2["experience"]) = MaxItems

\* Every item of the list under `key` is excluded by its item-level key.
AllItemsExcluded(data, selections, key) ==
    \A i \in 0..Len(data[key]) - 1 : ~Truthy(SelGet(selections, ItemKey(key, i)))

\* C15: a section whose 'select-<section>' key is false is not a key of
\* the filtered record, nor is a list section all of whose items are
\* excluded by item-level keys; no section of the filtered record is an
\* empty list.
C15_NoEmptySection ==
    fPc = "filtered" =>
        \A key \in Range(sections_to_process) :
            /\ (key \in DOMAIN fData /\ SelGet(fSel, SectionKey(key)) = "false")
                  => key \notin DOMAIN fOut
            /\ (key \in DOMAIN fData \cap ListKeys
                    /\ AllItemsExcluded(fData, fSel, key))
                  => key \notin DOMAIN fOut
            /\ key \in DOMAIN fOut \cap ListKeys => fOut[key] # <<>>

\* Filtered with 'select-projects' false and every one of MaxItems
\* experience entries excluded by its own key: both sections are gone.
C15_Witness ==
    /\ fPc = "filtered"
    /\ "projects" \in DOMAIN fData
    /\ SelGet(fSel, "select-projects") = "false"
    /\ Len(fData["experience"]) = MaxItems
    /\ Truthy(SelGet(fSel, "select-experience"))
    /\ AllItemsExcluded(fData, fSel, "experience")
    /\ "projects" \notin DOMAIN fOut
    /\ "experience" \notin DOMAIN fOut
    /\ "name" \in DOMAIN fOut

\* The items the claim keeps: all but those whose item-level key holds
\* false, from the i-th on.
RECURSIVE KeptUnlessFalse(_, _, _, _)
KeptUnlessFalse(items, section, selections, i) ==
    IF i > Len(items) THEN <<>>
    ELSE (IF SelGet(selections, ItemKey(section, i - 1)) # "false"
          THEN <<items[i]>> ELSE <<>>)
         \o KeptUnlessFalse(items, section, selections, i + 1)

\* C21 as claimed: in a list section that passes the section-level check,
\* the filtered list holds, in their original order, exactly the items
\* whose 'select-<section>-<i>' value is not false (an absent key and any
\* other value keep the item).
C21_KeptUnlessFalse ==
    fPc = "filtered" =>
        \A key \in DOMAIN fData \cap ListKeys :
            LET expected == KeptUnlessFalse(fData[key], key, fSel, 1) IN
            (Truthy(SelGet(fSel, SectionKey(key))) /\ expected # <<>>) =>
                /\ key \in DOMAIN fOut
                /\ [i \in 1..Len(fOut[key]) |-> fHeap[fOut[key][i]]]
                     = [i \in 1..Len(expected) |-> fHeap[expected[i]]]

\* C8 as claimed: the input is unchanged and no object of the returned
\* record is an object of the input.
C8_IndependentCopy ==
    fPc = "filtered" =>
        /\ Val(fHeap, fData) = fBefore
        /\ Addresses(fOut) \cap Addresses(fData) = {}

\* C10: a record with a name keeps it, whatever the selection map holds.
C10_NameSurvives ==
    (fPc \in {"filtered", "refiltered"} /\ "name" \in DOMAIN fData) =>
        /\ "name" \in DOMAIN fOut
        /\ fOut["name"] = fData["name"]

\* Filtered with a false 'select-name' and other sections dropped.
C10_Witness ==
    /\ fPc = "filtered"
    /\ "name" \in DOMAIN fData
    /\ "select-name" \in DOMAIN fSel
    /\ "summary" \in DOMAIN fData
    /\ "summary" \notin DOMAIN fOut
    /\ fOut["name"] = "Ann"

(***************************************************************************)
(* Properties of merge_resume_data (SpecMerge)                             *)
(***************************************************************************)
\* C7 as claimed: after the call both arguments have the values they had
\* before it, the bullets of every fixed experience entry included.
C7_MergeIsPure ==
    mPc = "merged" =>
        /\ Val(mHeap, mFixed) = mBefore.fixed
        /\ GenVal(mHeap, mGen) = mBefore.generated

\* The keys of the fixed record a merge rule writes.
MergeRuleKeys == {"summary", "skills", "experience", "projects"}

\* C12: every key of the fixed record that no merge rule covers (name,
\* contact) has in the merged record the value it had in the fixed record
\* before the call, and every experience entry is still there with the
\* company it had, whatever the generated record holds.
C12_UncoveredFieldsKept ==
    mPc = "merged" =>
        LET out == Val(mHeap, mOut) IN
        /\ \A k \in DOMAIN mBefore.fixed \ MergeRuleKeys :
              k \in DOMAIN out /\ out[k] = mBefore.fixed[k]
        /\ "experience" \in DOMAIN mBefore.fixed =>
              /\ "experience" \in DOMAIN out
              /\ Len(out["experience"]) = Len(mBefore.fixed["experience"])
              /\ \A i \in 1..Len(out["experience"]) :
                    out["experience"][i].title = mBefore.fixed["experience"][i].title

\* A merge whose generated record holds all four keys, with more bullet
\* sets than the fixed record has experience entries; the first entry's
\* bullets were replaced.
C12_Witness ==
    /\ mPc = "merged"
    /\ {"summary", "skills_reordered", "projects_reordered", "experience_bullets"}
          \subseteq DOMAIN mGen
    /\ Len(mGen["experience_bullets"]) = MaxBulletSets
    /\ "experience" \in DOMAIN mFixed
    /\ Len(mFixed["experience"]) = MaxExperience
    /\ mHeap[mFixed["experience"][1]].items = <<"new">>
    /\ Val(mHeap, mOut)["name"] = "Ann"

\* generated_data['experience_bullets'], or no bullet set.
GeneratedBulletSets ==
    IF "experience_bullets" \in DOMAIN mGen THEN mGen["experience_bullets"] ELSE <<>>

\* C22: the merged experience list is as long as the fixed one; entry i
\* has the bullets of the generated bullet set i when there is one, and
\* the bullets it had otherwise; bullet sets beyond the last entry are
\* ignored, and no entry's company changes.
C22_BulletsByIndex ==
    (mPc = "merged" /\ "experience" \in DOMAIN mBefore.fixed) =>
        LET out == Val(mHeap, mOut)["experience"]
            old == mBefore.fixed["experience"]
        IN  /\ Len(out) = Len(old)
            /\ \A i \in 1..Len(out) :
                  /\ out[i].title = old[i].title
                  /\ out[i].items = IF i <= Len(GeneratedBulletSets)
                                    THEN BulletsOf(GeneratedBulletSets[i])
                                    ELSE old[i].items

\* A merge of one generated bullet set into MaxExperience entries: the
\* first entry has the new bullets, the last its own.
C22_Witness ==
    /\ mPc = "merged"
    /\ "experience" \in DOMAIN mFixed
    /\ Len(mFixed["experience"]) = MaxExperience
    /\ Len(GeneratedBulletSets) = 1
    /\ Val(mHeap, mOut)["experience"][1].items = <<"new">>
    /\ Val(mHeap, mOut)["experience"][MaxExperience].items
         = mBefore.fixed["experience"][MaxExperience].items

(***************************************************************************)
(* Properties of version numbering (Spec)                                  *)
(***************************************************************************)
MaxOf(S) == CHOOSE n \in S : \A m \in S : m <= n

\* C1: every generate call returns one more than the highest version
\* number on disk when it was made, or 1 when no numbered version was
\* there (the unnumbered legacy file does not count); as long as no latest
\* version file has been removed, successive calls return numbers that
\* grow by exactly 1.
C1_NextNumber ==
    /\ \A i \in 1..Len(returned) :
          returned[i].number =
              IF returned[i].existed = {} THEN 1 ELSE MaxOf(returned[i].existed) + 1
    /\ ~latestRemoved =>
          \A i \in 1..Len(returned) - 1 :
              returned[i + 1].number = returned[i].number + 1

\* Three calls, the first with only the legacy file on disk, the third
\* after version 1 (not the latest) was removed.
C1_Witness ==
    /\ Len(returned) = 3
    /\ ~latestRemoved
    /\ returned[1].legacy /\ returned[1].existed = {}
    /\ returned[3].existed = {2}
    /\ returned[3].number = 3

\* C9 as claimed: no generate call returns a number that an earlier call
\* returned, whatever draft files were removed in between.
C9_NeverReused ==
    \A i, j \in 1..Len(returned) :
        i < j => returned[i].number # returned[j].number

\* C18 as claimed: a generate call whose generator failed, returned empty
\* content or returned content that is not the expected mapping creates no
\* draft version: every version a call created came from a mapping.
C18_DraftsComeFromMappings ==
    \A i \in 1..Len(returned) : returned[i].content = "mapping"

(***************************************************************************)
(* Properties of finalize_resume (SpecFinalize)                            *)
(***************************************************************************)
FinalizeAnswered(statuses) ==
    pc = "idle" /\ response.op = "finalize" /\ response.status \in statuses

\* C2 as claimed: after a finalize call that failed, finalized_resume.yaml
\* and the recorded base version are what they were when the call started.
C2_FailureChangesNothing ==
    FinalizeAnswered({400, 500}) =>
        /\ finalizedYaml = pre.finalizedYaml
        /\ details.finalizedBaseVersion = pre.finalizedBaseVersion

\* C3 as claimed: after a finalize call that succeeded, the record in
\* finalized_resume.yaml is the record that was rendered.
C3_PersistedIsRendered ==
    FinalizeAnswered({200}) => finalizedYaml.data = finalPdf.data

(***************************************************************************)
(* Properties of generate_resume and finalize_resume together              *)
(* (SpecLifecycle)                                                         *)
(***************************************************************************)
\* C11: no step of a finalize call adds, removes or renames a draft file,
\* so the version listing is what it was; the step that completes a
\* finalize call leaves finalized_resume.yaml in place and records the
\* request's base version file.
C11_FinalizeKeepsVersions ==
    [][response'.op = "finalize" =>
          /\ drafts' = drafts
          /\ get_resume_versions(DOMAIN drafts') = get_resume_versions(DOMAIN drafts)
          /\ pc = "finalize_update" =>
                /\ finalizedYaml'.exists
                /\ details'.finalizedBaseVersion = request.baseVersionFile]_vars

\* Versions 1, 2 and 3 were created and a finalize call with base version
\* 2 has succeeded.
C11_Witness ==
    /\ FinalizeAnswered({200})
    /\ Len(returned) = 3
    /\ get_resume_versions(DOMAIN drafts)
         = <<VersionFile(3), VersionFile(2), VersionFile(1)>>
    /\ finalizedYaml.exists
    /\ details.finalizedBaseVersion = VersionFile(2)

(***************************************************************************)
(* Properties of merge_variables and of the resolution in render_pdf       *)
(* (SpecResolve)                                                           *)
(***************************************************************************)
\* The layer holds the formatting key `sub` of the nested mapping `key`.
Sets(layer, key, sub) ==
    /\ layer.exists /\ ~layer.none
    /\ layer.top[key].kind = "dict"
    /\ vHeap[layer.top[key].v][sub] # 0

\* The layer says nothing about the nested mapping `key` or about its
\* formatting key `sub`.
Silent(layer, key, sub) ==
    \/ ~layer.exists
    \/ layer.none
    \/ layer.top[key].kind = "absent"
    \/ layer.top[key].kind = "dict" /\ vHeap[layer.top[key].v][sub] = 0

LayerValue(layer, key, sub) == vHeap[layer.top[key].v][sub]

\* The resolved value of the formatting key, 0 when final_vars has none.
Resolved(key, sub) ==
    IF vFinal[key].kind = "dict" THEN vHeap[vFinal[key].v][sub] ELSE 0

\* C13: a formatting key held by the defaults, the application's overrides
\* and the request's overrides resolves to the request's value; one held
\* by the defaults and the application only, to the application's value;
\* one held by the defaults only, to the default; layers that are None or
\* missing leave the defaults as they are.
C13_Precedence ==
    vPc = "resolved" =>
        /\ \A key \in Range(VarKeys), sub \in SubKeys :
              /\ (Sets(vDefaults, key, sub) /\ Sets(vApp, key, sub)
                    /\ Sets(vReq, key, sub))
                 => Resolved(key, sub) = LayerValue(vReq, key, sub)
              /\ (Sets(vDefaults, key, sub) /\ Sets(vApp, key, sub)
                    /\ Silent(vReq, key, sub))
                 => Resolved(key, sub) = LayerValue(vApp, key, sub)
              /\ (Sets(vDefaults, key, sub) /\ Silent(vApp, key, sub)
                    /\ Silent(vReq, key, sub))
                 => Resolved(key, sub) = LayerValue(vDefaults, key, sub)
        /\ ((~vApp.exists \/ vApp.none) /\ vReq.none)
              => VarsVal(vHeap, vFinal) = vBefore.defaults

\* Resolved with "a" of "general" held by all three layers and "a" of
\* "styles" by the defaults and the application only.
C13_Witness ==
    /\ vPc = "resolved"
    /\ Sets(vDefaults, "general", "a") /\ Sets(vApp, "general", "a")
    /\ Sets(vReq, "general", "a")
    /\ Resolved("general", "a") = 3
    /\ Sets(vDefaults, "styles", "a") /\ Sets(vApp, "styles", "a")
    /\ Silent(vReq, "styles", "a")
    /\ Resolved("styles", "a") = 2
    /\ Resolved("general", "b") = 1

\* C16 as claimed: after merge_variables(load_variables(), app_specific_vars)
\* both arguments have the values they had, and no nested mapping of the
\* result is a nested mapping of either argument.
C16_FreshResult ==
    (vPc = "app" /\ vApp.exists) =>
        /\ VarsVal(vHeap, vDefaults.top) = vBefore.defaults
        /\ VarsVal(vHeap, vApp.top) = vBefore.app
        /\ VarsAddresses(vFinal) \cap VarsAddresses(vDefaults.top) = {}
        /\ VarsAddresses(vFinal) \cap VarsAddresses(vApp.top) = {}

(***************************************************************************)
(* Properties of reads that run while the artifact is written (SpecRace)   *)
(***************************************************************************)
\* C17 as claimed: a read that returns the content of a draft version or
\* of the finalized slot returns the complete text the file held before a
\* write or the complete text a write gave it, never an empty or partly
\* written one.
C17_ReadsAreWhole ==
    (cReader.pc = "done" /\ cReader.status = 200) => cReader.content \in cPublished

\* C19 as claimed: within a finalize call, finalized_resume.yaml and the
\* recorded base version are written only by the last step, after the
\* record was filtered, fitted and rendered.
C19_PersistedLast ==
    [][(finalizedYaml' # finalizedYaml
          \/ details'.finalizedBaseVersion # details.finalizedBaseVersion)
       => pc = "finalize_update"]_vars

\* C20 as claimed: between finalize calls, finalized_resume.yaml and the
\* recorded base version come from the same call: the slot is empty and
\* no base version is recorded, or the recorded base version is the one of
\* the request that wrote the slot.
C20_ConsistentPair ==
    pc = "idle" =>
        IF finalizedYaml.exists
        THEN details.finalizedBaseVersion = slotBase
        ELSE details.finalizedBaseVersion = NoBase

(***************************************************************************)
(* Properties of render_pdf (SpecPreview)                                  *)
(***************************************************************************)
\* C28: a preview render, answered 200, 400 or 500, leaves the draft
\* files, finalized_resume.yaml, the recorded base version, the saved
\* custom variables and the final document as they were.
C28_PreviewWritesPreviewOnly ==
    [][response'.op = "preview" /\ pc = "idle" =>
          /\ drafts' = drafts
          /\ finalizedYaml' = finalizedYaml
          /\ details' = details
          /\ customVars' = customVars
          /\ finalPdf' = finalPdf]_vars

\* A preview that succeeded on an application with a draft file, a
\* finalized record and document, a recorded base version and saved
\* variables; the preview differs from the final document.
C28_Witness ==
    /\ response.op = "preview" /\ response.status = 200
    /\ previewPdf.exists
    /\ DOMAIN drafts # {}
    /\ finalizedYaml.exists
    /\ finalPdf.exists
    /\ previewPdf.data # finalPdf.data
    /\ details.finalizedBaseVersion # NoBase
    /\ customVars.exists

\* The record a finalize call in its rendering step would render with the
\* variables resolved from the defaults, the saved overrides and the
\* request's variables.
RenderedWithResolved ==
    LET final_vars == ResolvedVariables(customVars, request.variables)
        trimmed == preprocess_data_for_fitting(locals.heap, locals.final_resume_data,
                                               final_vars.max_width)
    IN  Val(trimmed.heap, trimmed.out)

\* C23 as claimed: a finalize call that has reached its rendering step can
\* complete it, and then the document holds the record fitted with the
\* variables resolved from all three layers; a skills style that only the
\* defaults or only the saved overrides hold is in effect.
C23_FinalizeUsesResolved ==
    pc = "finalize_render" =>
        ENABLED (/\ FinalizeRender
                 /\ pc' = "finalize_update"
                 /\ finalPdf'.data = RenderedWithResolved)

(***************************************************************************)
(* Properties of get_resume_versions (SpecVersions)                        *)
(***************************************************************************)
\* The numbers of the names of the directory that the pattern matches.
ListedNumbers == {ParseInt(n.digits) : n \in {x \in lDir.names : VersionMatch(x)}}

\* C25: the listing of a missing directory is empty; otherwise it holds one
\* entry for every numbered version file, highest number first by the
\* value of the number, and after them the legacy file when the directory
\* holds it, and nothing else.
C25_NewestFirstLegacyLast ==
    lPc = "listed" =>
        LET n == Cardinality(ListedNumbers) IN
        /\ ~lDir.exists => lOut = <<>>
        /\ Len(lOut) = n + (IF LegacyName \in lDir.names THEN 1 ELSE 0)
        /\ \A i \in 1..n : lOut[i].stem = "tailored_resume_v"
                              /\ lOut[i].num \in ListedNumbers
        /\ \A i \in 1..n - 1 : lOut[i].num > lOut[i + 1].num
        /\ LegacyName \in lDir.names => lOut[Len(lOut)] = LegacyFile

\* A directory with versions 2, 9 and 10, the legacy file and other files.
C25_Witness ==
    /\ lPc = "listed"
    /\ Cardinality(lDir.names) > 4
    /\ lOut = <<VersionFile(10), VersionFile(9), VersionFile(2), LegacyFile>>

(***************************************************************************)
(* Properties of the fitting loop (SpecLoop)                               *)
(***************************************************************************)
\* What holds of the loop at every step: at most n + 1 measurements, one
\* trailing skill gone for each measurement that did not fit, and a return
\* only on a measurement that fits or on the exhausted list.
LoopBounded ==
    LET n == Len(wIn.skills) IN
    /\ wCount <= n + 1
    /\ wCur = SubSeq(wIn.skills, 1, n - wFails)
    /\ wPc = "loop" => wCount = wFails
    /\ wPc = "returned" =>
          /\ wCount = wFails + 1
          /\ \/ /\ wCur # <<>>
                /\ wOut = wCur
                /\ FitsOneLine(BaseText(wIn.category) \o JoinSkills(wCur), wIn.width)
             \/ /\ wCur = <<>>
                /\ wFails = n
                /\ wOut \in {<<>>, <<"">>}
          /\ wOut = get_trimmed_skills_list(wIn.category, wIn.skills, wIn.width)

\* C26: the loop returns on every input, after at most n + 1 measurements,
\* having dropped exactly one trailing skill after each measurement that
\* did not fit, at the first measurement that fits or on the empty list.
C26_LoopTerminates == [](LoopBounded) /\ <>(wPc = "returned")

\* Three skills, none of which fits, measured four times.
C26_Witness ==
    /\ wPc = "returned"
    /\ Len(wIn.skills) = MaxSkills
    /\ wCount = MaxSkills + 1
    /\ wFails = MaxSkills

(***************************************************************************)
(* Properties of concurrent generate_resume calls (SpecAllocate)           *)
(***************************************************************************)
\* Both calls have written and returned.
BothDone == \A p \in Generators : aProc[p].pc = "done"

\* C27: when a call lists the versions while the other holds a number whose
\* file it has not yet opened, the two calls get the same number; when both
\* have finished, the directory holds one new version file, which starts
\* with the draft flushed last and does not hold the other draft.  Calls
\* that do not overlap in that way get two numbers and two files.
C27_ConcurrentCallsCollide ==
    /\ (aRaced /\ \A p \in Generators : aProc[p].pc # "start")
          => aProc[1].num = aProc[2].num
    /\ (aRaced /\ BothDone) =>
          LET new == DOMAIN aFiles \ aBefore IN
          /\ new = {VersionFile(aProc[1].num)}
          /\ \A f \in new :
                /\ IsPrefix(Draft(aLast), aFiles[f])
                /\ \A q \in Generators \ {aLast} : aFiles[f] # Draft(q)
    /\ (~aRaced /\ BothDone) =>
          /\ aProc[1].num # aProc[2].num
          /\ \A p \in Generators : aFiles[VersionFile(aProc[p].num)] = Draft(p)

\* Both calls got number 2 over a directory holding version 1, and the one
\* new file holds the second call's draft alone.
C27_Witness ==
    /\ BothDone
    /\ aRaced
    /\ aBefore = {VersionFile(1)}
    /\ aProc[1].num = 2 /\ aProc[2].num = 2
    /\ DOMAIN aFiles = {VersionFile(1), VersionFile(2)}
    /\ aFiles[VersionFile(2)] = Draft(2)

(***************************************************************************)
(* Properties of get_application_details (SpecDetails)                     *)
(***************************************************************************)
\* The numbered versions of a directory, and its newest file as the
\* listing orders them: the highest number, else the legacy file.
NumberedIn(files) == {f \in DOMAIN files : f.stem = "tailored_resume_v"}

\* C29: the draft returned is the content of the recorded base version
\* when its file exists; otherwise the content of the highest numbered
\* version, or of the legacy file when there is no numbered version; and
\* the empty text when the directory holds no version at all.
C29_CurrentDraft ==
    shown.called =>
        LET files == shown.seen.drafts
            base  == shown.seen.base
        IN  IF base # NoBase /\ base \in DOMAIN files
            THEN /\ shown.base_version_file = base
                 /\ shown.resumeYaml = <<files[base]>>
            ELSE IF NumberedIn(files) # {}
            THEN /\ shown.base_version_file \in NumberedIn(files)
                 /\ \A g \in NumberedIn(files) : g.num <= shown.base_version_file.num
                 /\ shown.resumeYaml = <<files[shown.base_version_file]>>
            ELSE IF LegacyFile \in DOMAIN files
            THEN /\ shown.base_version_file = LegacyFile
                 /\ shown.resumeYaml = <<files[LegacyFile]>>
            ELSE /\ shown.base_version_file = NoBase
                 /\ shown.resumeYaml = <<>>

\* The recorded base version is version 1, its file exists beside a newer
\* version, and version 1 is what the call returned.
C29_Witness ==
    /\ shown.called
    /\ shown.seen.base = VersionFile(1)
    /\ VersionFile(1) \in DOMAIN shown.seen.drafts
    /\ \E f \in DOMAIN shown.seen.drafts : f.stem = "tailored_resume_v" /\ f.num > 1
    /\ shown.base_version_file = VersionFile(1)

(***************************************************************************)
(* Properties of the tracker (SpecTracker)                                 *)
(***************************************************************************)
\* No two items of the tracker hold the same non-blank jobId.
UniqueJobIds ==
    \A i, j \in 1..Len(tApps) :
        (i # j /\ HasJobId(tApps[i].jobId)) => tApps[i].jobId # tApps[j].jobId

\* C30 as claimed: no two tracker items share a non-blank jobId, and an
\* add that matched an item left the tracker's length as it was and that
\* item's id and createdAt as they were.
C30_UniqueAndUpdatedInPlace ==
    /\ UniqueJobIds
    /\ (tLast.op = "add" /\ tLast.index # 0) =>
          /\ Len(tApps) = Len(tLast.before)
          /\ tApps[tLast.index].id = tLast.before[tLast.index].id
          /\ tApps[tLast.index].createdAt = tLast.before[tLast.index].createdAt

====
